---- MODULE Spec2Model ----
(***************************************************************************)
(* A model of the incremental batch-processing kernel of datapipe:         *)
(*   - c12n_pipe/datatable.py : DataTable.store_chunk / sync_meta / store  *)
(*   - datapipe/core_steps.py : the change-set planner and the transform-  *)
(*                              meta commit hooks of BaseBatchTransformStep*)
(*   - datapipe/compute.py    : process_batch, run_full, run_changelist,   *)
(*                              run_steps, run_steps_changelist            *)
(* Tables are partial functions from primary keys to rows.  Modules that   *)
(* the sources import but that are not part of src/ (datapipe.datatable,   *)
(* datapipe.metastore, ChangeList) are modelled from spec.md sections 3-4. *)
(***************************************************************************)
EXTENDS Integers, Sequences, FiniteSets, TLC

\* ------------------------------------------------------------------ bounds
NKeys == 2          \* primary-key values 1..NKeys
MaxVal == 2         \* content values 1..MaxVal of an input row
MaxTime == 3        \* latest `now` an ingest may be given
MaxMutations == 3   \* input mutations in one behaviour of the pipeline
MaxFailures == 1    \* injected batch failures in one behaviour
MaxClock == 7       \* no mutation or run starts at or after this clock value
MaxPriority == 1    \* transform-meta priorities 0..MaxPriority

Keys == 1..NKeys
Vals == 1..MaxVal
Times == 1..MaxTime

\* SQL NULL / Python None for a timestamp
NULL == 0 - 1

\* ------------------------------------------------------------ frame helpers
\* A frame (DataFrame indexed by primary key) is a function whose domain is
\* the set of primary keys it holds.
EmptyDF == [k \in {} |-> 0]

Frames(K, V) == UNION {[S -> V] : S \in SUBSET K}

Upsert(f, g) == [k \in (DOMAIN f) \cup (DOMAIN g) |-> IF k \in DOMAIN g THEN g[k] ELSE f[k]]

Remove(f, idx) == [k \in (DOMAIN f) \ idx |-> f[k]]

Loc(f, idx) == [k \in (DOMAIN f) \cap idx |-> f[k]]

\* pd.util.hash_pandas_object(str(list(row))): a deterministic 64-bit hash of
\* the stringified row; injective on the small value domain of the model.
Hash(v) == (31 * v + 7) % 1009

VARIABLES
    data,             \* table name -> frame of data rows (the table's data store)
    meta,             \* table name -> frame of row-meta rows
    trmeta,           \* step name  -> frame of transform-meta rows
    clock,            \* the next value time.time() returns
    last,             \* the last call: its name, arguments and result
    driver,           \* ds.meta_dbconn.con.driver
    chunk_size,       \* BaseBatchTransformStep.chunk_size
    pc,               \* position of run_steps: "idle", "plan" or "batch"
    step_i,           \* index of the step run_steps is at
    idx_gen,          \* batches the running step has still to process
    event_log,        \* exceptions given to ds.event_logger.log_exception
    nmut,             \* input mutations so far
    nfail,            \* batch failures so far
    dirty,            \* an input was mutated since run_steps last started
    each_run,         \* so far every input mutation was followed by a run_steps
    hist,             \* per step and key: how its last batch ended ("retried_ok":
                      \* a success after a transform failure; "none" once an
                      \* input row of the key changed after a success)
    workers,          \* the batches the executor runs for a step: their index,
                      \* position in store_batch_result and outputs stored
    pipeline,         \* what the run was declared with: the step list given to
                      \* run_steps_changelist, the step given to build_compute,
                      \* or the arguments a table store was constructed with
    current_changes,  \* run_steps_changelist: current_changes
    iteration         \* run_steps_changelist: iteration

vars == <<data, meta, trmeta, clock, last, driver, chunk_size, pc, step_i, idx_gen,
          event_log, nmut, nfail, dirty, each_run, hist, workers,
          pipeline, current_changes, iteration>>

conf == <<driver, chunk_size>>

executor == <<workers>>

run == <<pc, step_i, idx_gen, event_log, nmut, nfail, dirty, each_run, hist>>

driver_loop == <<pipeline, current_changes, iteration>>

\* --------------------------------------------- c12n_pipe/datatable.py
LegacyTables == {"legacy"}

make_new_metadata_df(now, df) ==
    [k \in DOMAIN df |->
        [hash |-> Hash(df[k]), create_ts |-> now, update_ts |-> now,
         process_ts |-> now, delete_ts |-> NULL]]

\* DataTable.get_metadata(idx) = table_meta.read_rows(idx)
get_metadata(m, idx) == Loc(m, idx)

store_chunk_changed_idx(m, df, now) ==
    LET existing_meta_df == get_metadata(m, DOMAIN df)
        new_meta_df == make_new_metadata_df(now, df)
        common_idx == (DOMAIN existing_meta_df) \cap (DOMAIN new_meta_df)
    IN  {k \in common_idx : new_meta_df[k].hash # existing_meta_df[k].hash}

store_chunk_new_idx(m, df) == (DOMAIN df) \ (DOMAIN get_metadata(m, DOMAIN df))

\* only the changed rows handed to table_data.update_rows
store_chunk_to_write_changed(m, df, now) == Loc(df, store_chunk_changed_idx(m, df, now))

\* the data rows store_chunk hands to table_data.update_rows
store_chunk_to_write(m, df, now) ==
    Loc(df, store_chunk_changed_idx(m, df, now) \cup store_chunk_new_idx(m, df))

\* store_chunk's meta with the process_ts of a changed row taken from the
\* existing row's update_ts
store_chunk_meta_carrying(m, df, now) ==
    LET existing_meta_df == get_metadata(m, DOMAIN df)
        new_meta_df == make_new_metadata_df(now, df)
        changed_idx == store_chunk_changed_idx(m, df, now)
    IN  Upsert(m, [k \in DOMAIN new_meta_df |->
            IF k \in changed_idx
            THEN [new_meta_df[k] EXCEPT !.process_ts = existing_meta_df[k].update_ts]
            ELSE new_meta_df[k]])

\* the row meta after store_chunk: the chunk's rows are deleted and inserted
\* again; create_ts is carried over for changed rows, update_ts for the
\* existing rows that did not change
store_chunk_meta(m, df, now) ==
    LET existing_meta_df == get_metadata(m, DOMAIN df)
        new_meta_df == make_new_metadata_df(now, df)
        changed_idx == store_chunk_changed_idx(m, df, now)
        not_changed_idx == (DOMAIN existing_meta_df) \ changed_idx
        carried == [k \in DOMAIN new_meta_df |->
            IF k \in changed_idx
            THEN [new_meta_df[k] EXCEPT !.create_ts = existing_meta_df[k].create_ts]
            ELSE IF k \in not_changed_idx
            THEN [new_meta_df[k] EXCEPT !.update_ts = existing_meta_df[k].update_ts]
            ELSE new_meta_df[k]]
    IN  IF DOMAIN new_meta_df = {} THEN m
        ELSE Upsert(Remove(m, DOMAIN new_meta_df), carried)

\* DataTable.sync_meta(chunks, processed_idx): rows of processed_idx (all rows
\* when it is None, given here as the whole key set) that no chunk holds
sync_meta_deleted_idx(m, chunk_idx, processed_idx) ==
    (DOMAIN get_metadata(m, processed_idx)) \ chunk_idx

\* DataTable.store_chunk(data_df, now)
StoreChunk(t, df, now) ==
    /\ data' = [data EXCEPT ![t] = Upsert(@, store_chunk_to_write(meta[t], df, now))]
    /\ meta' = [meta EXCEPT ![t] = store_chunk_meta(@, df, now)]
    /\ clock' = now
    /\ last' = [op |-> "store_chunk", table |-> t, df |-> df, now |-> now,
                ret |-> DOMAIN df,
                revived |-> IF last.op = "store" /\ last.table = t
                            THEN Loc(last.gone, DOMAIN df) ELSE EmptyDF]
    /\ UNCHANGED <<trmeta, conf, run, driver_loop, executor>>

\* DataTable.store(df): store_chunk, then sync_meta of the chunk it returned
Store(t, df, now) ==
    LET m1 == store_chunk_meta(meta[t], df, now)
        d1 == Upsert(data[t], store_chunk_to_write(meta[t], df, now))
        deleted_idx == sync_meta_deleted_idx(m1, DOMAIN df, Keys)
    IN  /\ data' = [data EXCEPT ![t] = Remove(d1, deleted_idx)]
        /\ meta' = [meta EXCEPT ![t] = Remove(m1, deleted_idx)]
        /\ clock' = now
        /\ last' = [op |-> "store", table |-> t, df |-> df, now |-> now,
                    ret |-> deleted_idx, gone |-> Loc(d1, deleted_idx)]
        /\ UNCHANGED <<trmeta, conf, run, driver_loop, executor>>

\* the tables of the pipeline (datapipe.datatable.DataTable) and the one
\* c12n_pipe DataTable
PipeTables == {"a", "b", "mid", "out", "loop"}

AllTables == LegacyTables \cup PipeTables

StepNames == {"pair", "upper", "rotate", "saturate", "fan", "tri"}

NoTables == [t \in AllTables |-> EmptyDF]

NoTrMeta == [s \in StepNames |-> EmptyDF]

NoHist == [n \in StepNames |-> [k \in Keys |-> "none"]]

\* ChangeList(): no table name mapped
NoCL == [t \in {} |-> {}]

\* ---------------------------------------------- the pipeline's steps
\* Two BatchTransform steps over tables keyed by one column `id`, which is
\* therefore the only transform key and a common key of every input:
\*   pair : (a, b) -> mid      upper : mid -> out
steps ==
    << [name |-> "pair",  input_dts |-> <<"a", "b">>, output_dts |-> <<"mid">>],
       [name |-> "upper", input_dts |-> <<"mid">>,    output_dts |-> <<"out">>] >>

\* two one-step pipelines whose step writes the table it reads
rotate_steps == << [name |-> "rotate", input_dts |-> <<"loop">>, output_dts |-> <<"loop">>] >>

saturate_steps == << [name |-> "saturate", input_dts |-> <<"loop">>, output_dts |-> <<"loop">>] >>

\* a step with two outputs:  fan : a -> (mid, out)
fan_step == [name |-> "fan", input_dts |-> <<"a">>, output_dts |-> <<"mid", "out">>]

Pipelines == [chain |-> steps, rotate |-> rotate_steps, saturate |-> saturate_steps]

\* F(v), v evaluated once
Let(v, F(_)) == CHOOSE y \in {F(x) : x \in {v}} : TRUE

Max(S) == CHOOSE x \in S : \A y \in S : y <= x

SeqToSet(q) == {q[i] : i \in 1..Len(q)}

\* ------------------------- BaseBatchTransformStep._build_changed_idx_sql
\* comparison with SQL NULL is not true
SqlGt(x, y) == x # NULL /\ y # NULL /\ x > y

\* SQLite's scalar max(x, y, ...) is NULL when any argument is NULL
sqlite_max(xs) == IF NULL \in xs THEN NULL ELSE Max(xs)

\* GREATEST(x, y, ...) ignores NULL arguments and is NULL when all are
sql_greatest(xs) == IF xs \ {NULL} = {} THEN NULL ELSE Max(xs \ {NULL})

greatest_func(drv, xs) ==
    IF drv \in {"sqlite", "pysqlite"} THEN sqlite_max(xs) ELSE sql_greatest(xs)

\* the aggregate restricted to live rows (WHERE delete_ts IS NULL)
make_agg_cte_live(m) ==
    [k \in {x \in DOMAIN m : m[x].delete_ts = NULL} |-> m[k].update_ts]

\* SELECT id, max(update_ts) FROM <meta table> GROUP BY id
make_agg_cte(m) == [k \in DOMAIN m |-> m[k].update_ts]

\* first_cte FULL OUTER JOIN ctes[2] ON first_cte.id = ctes[2].id FULL OUTER
\* JOIN ... ctes[n] ON first_cte.id = ctes[n].id.  A joined row is the tuple
\* of the ids it takes from each cte (NULL where the cte gives none).
RECURSIVE outerjoin_ctes(_, _)
outerjoin_ctes(ctes, n) ==
    IF n = 1 THEN {<<k>> : k \in DOMAIN ctes[1]}
    ELSE LET rows == outerjoin_ctes(ctes, n - 1)
             matched(r) == {k \in DOMAIN ctes[n] : r[1] # NULL /\ r[1] = k}
             joined == UNION {IF matched(r) = {} THEN {Append(r, NULL)}
                              ELSE {Append(r, k) : k \in matched(r)} : r \in rows}
             unmatched == {k \in DOMAIN ctes[n] : \A r \in rows : k \notin matched(r)}
         IN  joined \cup {Append([i \in 1..(n - 1) |-> NULL], k) : k \in unmatched}

\* coalesce(x1, ..., xn): the first argument that is not NULL
RECURSIVE coalesce(_)
coalesce(xs) ==
    IF xs = <<>> THEN NULL
    ELSE IF Head(xs) # NULL THEN Head(xs) ELSE coalesce(Tail(xs))

\* _make_agg_of_agg: one row (id, update_ts) per joined row; `row` keeps the
\* rows of the result apart, as SQL does
make_agg_of_agg(drv, ctes) ==
    IF Len(ctes) = 1
    THEN {[id |-> k, update_ts |-> ctes[1][k], row |-> <<k>>] : k \in DOMAIN ctes[1]}
    ELSE {[id |-> coalesce(r),
           update_ts |-> greatest_func(drv,
               {IF r[i] = NULL THEN NULL ELSE ctes[i][r[i]] : i \in 1..Len(ctes)}),
           row |-> r] : r \in outerjoin_ctes(ctes, Len(ctes))}

\* inp FULL OUTER JOIN transform ON inp.id = transform.id
join_transform(inp, tr) ==
    {[id |-> r.id, update_ts |-> r.update_ts, row |-> r.row,
      has_out |-> r.id \in DOMAIN tr,
      out |-> IF r.id \in DOMAIN tr THEN tr[r.id] ELSE [process_ts |-> NULL]] : r \in inp}
    \cup
    {[id |-> k, update_ts |-> NULL, row |-> <<>>, has_out |-> TRUE, out |-> tr[k]] :
        k \in {k \in DOMAIN tr : \A r \in inp : r.id # k}}

\* WHERE (is_success = true AND inp.update_ts > process_ts)
\*    OR is_success != true OR process_ts IS NULL
changed_idx_where(j) ==
    \/ j.has_out /\ j.out.is_success /\ SqlGt(j.update_ts, j.out.process_ts)
    \/ j.has_out /\ ~j.out.is_success
    \/ j.out.process_ts = NULL

\* ORDER BY priority DESC NULLS FIRST, id
order_before_nulls_first(j1, j2) ==
    LET p1 == IF j1.has_out THEN j1.out.priority ELSE NULL
        p2 == IF j2.has_out THEN j2.out.priority ELSE NULL
    IN  IF p1 # p2 THEN p1 = NULL \/ (p2 # NULL /\ p1 > p2)
        ELSE j1.id <= j2.id

\* ORDER BY priority DESC NULLS LAST, id
order_before(j1, j2) ==
    LET p1 == IF j1.has_out THEN j1.out.priority ELSE NULL
        p2 == IF j2.has_out THEN j2.out.priority ELSE NULL
    IN  IF p1 # p2 THEN p1 # NULL /\ (p2 = NULL \/ p1 > p2)
        ELSE j1.id <= j2.id

RECURSIVE order_by(_)
order_by(rows) ==
    IF rows = {} THEN <<>>
    ELSE LET first == CHOOSE j \in rows : \A o \in rows : order_before(j, o)
         IN  <<first.id>> \o order_by(rows \ {first})

\* the ids the changed-idx query returns, in order
build_changed_idx_sql(drv, step, mt, trm) ==
    LET inp_ctes == [i \in 1..Len(step.input_dts) |-> make_agg_cte(mt[step.input_dts[i]])]
        inp == make_agg_of_agg(drv, inp_ctes)
    IN  order_by({j \in join_transform(inp, trm[step.name]) : changed_idx_where(j)})

\* ------------------------------ BaseBatchTransformStep.get_full_process_ids
ceil_div(n, d) == (n + d - 1) \div d

\* pd.read_sql_query(sql, chunksize=chunk_size): consecutive chunks of rows
RECURSIVE read_chunks(_, _)
read_chunks(ids, size) ==
    IF ids = <<>> THEN <<>>
    ELSE IF Len(ids) <= size THEN <<ids>>
    ELSE <<SubSeq(ids, 1, size)>> \o read_chunks(SubSeq(ids, size + 1, Len(ids)), size)

get_changed_idx_count(drv, step, mt, trm) == Len(build_changed_idx_sql(drv, step, mt, trm))

get_full_process_ids(drv, step, mt, trm, size) ==
    IF Len(step.input_dts) = 0 THEN [idx_count |-> 0, idx_gen |-> <<>>]
    ELSE [idx_count |-> ceil_div(get_changed_idx_count(drv, step, mt, trm), size),
          idx_gen |-> read_chunks(build_changed_idx_sql(drv, step, mt, trm), size)]

RECURSIVE concat(_)
concat(qs) == IF qs = <<>> THEN <<>> ELSE Head(qs) \o concat(Tail(qs))

\* ------------------------------------------------ planner on any meta state
PlanStep == steps[1]

\* a row-meta row as an ingest at time ts leaves it
MetaRowAt(ts) ==
    [hash |-> Hash(1), create_ts |-> ts, update_ts |-> ts, process_ts |-> ts,
     delete_ts |-> NULL]

TrRows ==
    [process_ts : Times, is_success : BOOLEAN, priority : 0..MaxPriority,
     error : {"None"}]

InitPlanner ==
    /\ data = NoTables
    /\ \E ma \in Frames(Keys, Times), mb \in Frames(Keys, Times) :
          meta = [NoTables EXCEPT !["a"] = [k \in DOMAIN ma |-> MetaRowAt(ma[k])],
                                  !["b"] = [k \in DOMAIN mb |-> MetaRowAt(mb[k])]]
    /\ \E tr \in Frames(Keys, TrRows) : trmeta = [NoTrMeta EXCEPT ![PlanStep.name] = tr]
    /\ clock = MaxTime
    /\ last = [op |-> "init"]
    /\ driver \in {"sqlite", "postgresql"}
    /\ chunk_size \in 1..NKeys
    /\ pc = "idle" /\ step_i = 0 /\ idx_gen = <<>>
    /\ event_log = {} /\ nmut = 0 /\ nfail = 0
    /\ dirty = FALSE /\ each_run = TRUE /\ hist = NoHist /\ workers = <<>>
    /\ pipeline = "chain" /\ current_changes = NoCL /\ iteration = 0

\* step.get_full_process_ids(ds)
GetFullProcessIds ==
    /\ last.op = "init"
    /\ last' = [op |-> "get_full_process_ids", step |-> PlanStep.name,
                ret |-> get_full_process_ids(driver, PlanStep, meta, trmeta, chunk_size)]
    /\ UNCHANGED <<data, meta, trmeta, clock, conf, run, driver_loop, executor>>

NextPlanner == GetFullProcessIds

\* the planner called on any state of the input row-meta tables and of the
\* step's transform-meta table
SpecPlanner == InitPlanner /\ [][NextPlanner]_vars

\* the keys a planning call returned
Planned == SeqToSet(concat(last.ret.idx_gen))

\* the stale predicate of spec 4.4 for key k of step st
Stale(st, k) ==
    \/ k \notin DOMAIN trmeta[st.name]
    \/ ~trmeta[st.name][k].is_success
    \/ \E i \in 1..Len(st.input_dts) :
          /\ k \in DOMAIN meta[st.input_dts[i]]
          /\ meta[st.input_dts[i]][k].update_ts > trmeta[st.name][k].process_ts

KnownKeys(st) ==
    DOMAIN trmeta[st.name] \cup UNION {DOMAIN meta[st.input_dts[i]] : i \in 1..Len(st.input_dts)}

\* C5: get_full_process_ids returns exactly the keys that are stale: the
\* transform-meta row is absent, or is_success is not true, or some input
\* meta row of the key has update_ts > process_ts.
C5_PlannerExact ==
    last.op = "get_full_process_ids" =>
        Planned = {k \in KnownKeys(PlanStep) : Stale(PlanStep, k)}

\* C6: with two inputs, a successfully processed key is returned whenever one
\* input's meta row has update_ts > process_ts, whatever the other input holds.
C6_MultiInputStale ==
    last.op = "get_full_process_ids" =>
        \A k \in DOMAIN trmeta[PlanStep.name] :
            (/\ trmeta[PlanStep.name][k].is_success
             /\ \E i \in 1..Len(PlanStep.input_dts) :
                   /\ k \in DOMAIN meta[PlanStep.input_dts[i]]
                   /\ meta[PlanStep.input_dts[i]][k].update_ts
                        > trmeta[PlanStep.name][k].process_ts)
            => k \in Planned

InitTable ==
    /\ data = NoTables
    /\ meta = NoTables
    /\ trmeta = NoTrMeta
    /\ clock = 1
    /\ last = [op |-> "init"]
    /\ driver = "sqlite"
    /\ chunk_size = 1
    /\ pc = "idle" /\ step_i = 0 /\ idx_gen = <<>>
    /\ event_log = {} /\ nmut = 0 /\ nfail = 0
    /\ dirty = FALSE /\ each_run = TRUE /\ hist = NoHist /\ workers = <<>>
    /\ pipeline = "chain" /\ current_changes = NoCL /\ iteration = 0

DoStoreChunk ==
    \E t \in LegacyTables, df \in Frames(Keys, Vals), now \in Times :
        now >= clock /\ StoreChunk(t, df, now)

DoStore ==
    \E t \in LegacyTables, df \in Frames(Keys, Vals), now \in Times :
        now >= clock /\ Store(t, df, now)

NextTable == DoStoreChunk \/ DoStore

\* ingest operations on one c12n_pipe DataTable, at non-decreasing times
SpecTable == InitTable /\ [][NextTable]_vars

\* C2: every live row-meta row has create_ts <= update_ts <= process_ts
\* after any sequence of store_chunk ingests at non-decreasing times.
C2_TimestampInvariant ==
    \A t \in LegacyTables : \A k \in DOMAIN meta[t] :
        meta[t][k].delete_ts = NULL =>
            /\ meta[t][k].create_ts <= meta[t][k].update_ts
            /\ meta[t][k].update_ts <= meta[t][k].process_ts

\* C3: a store_chunk that repeats the preceding store_chunk (same table, same
\* chunk) leaves hash, update_ts and create_ts of the chunk's rows and the
\* data store unchanged; only process_ts may advance.
C3_ReingestIdempotent ==
    [][(/\ last.op = "store_chunk" /\ last'.op = "store_chunk"
        /\ last'.table = last.table /\ last'.df = last.df)
       => LET t == last.table IN
          /\ data'[t] = data[t]
          /\ \A k \in DOMAIN last.df :
                /\ meta'[t][k].hash = meta[t][k].hash
                /\ meta'[t][k].update_ts = meta[t][k].update_ts
                /\ meta'[t][k].create_ts = meta[t][k].create_ts]_vars

\* C19 (tombstone invariant): a row whose meta has delete_ts set has no data
\* row, and an operation that deletes a data row keeps the row's meta row
\* and sets its delete_ts.
C19_TombstoneInvariant ==
    /\ [](\A t \in LegacyTables : \A k \in DOMAIN meta[t] :
              meta[t][k].delete_ts # NULL => k \notin DOMAIN data[t])
    /\ [][\A t \in LegacyTables : \A k \in DOMAIN data[t] :
              k \notin DOMAIN data'[t] =>
                  k \in DOMAIN meta'[t] /\ meta'[t][k].delete_ts # NULL]_vars

get_existing_idx(m, idx) == {k \in (DOMAIN m) \cap idx : m[k].delete_ts = NULL}

\* the chunk's row meta: a tombstoned or unknown PK is born at `now`, a live
\* PK keeps create_ts, and keeps update_ts too when its hash did not change
get_changes_for_store_chunk(m, df, now) ==
    LET existing == get_existing_idx(m, DOMAIN df)
        new_meta == make_new_metadata_df(now, df)
        changed == {k \in existing : new_meta[k].hash # m[k].hash}
        brand_new == (DOMAIN df) \ existing
    IN  [new_idx |-> brand_new,
         changed_idx |-> changed,
         meta_df |-> [k \in DOMAIN df |->
            IF k \in changed
            THEN [new_meta[k] EXCEPT !.create_ts = m[k].create_ts]
            ELSE IF k \in existing
            THEN [new_meta[k] EXCEPT !.create_ts = m[k].create_ts,
                                     !.update_ts = m[k].update_ts]
            ELSE new_meta[k]]]

\* sets delete_ts = now on the listed PKs; the meta rows stay
mark_rows_deleted(m, idx, now) ==
    [k \in DOMAIN m |-> IF k \in idx THEN [m[k] EXCEPT !.delete_ts = now] ELSE m[k]]

\* ------------------ datapipe.datatable.DataTable (spec 4.5; not in src/)
\* store_chunk(data_df, processed_idx, now): the diff is written, then the
\* live PKs of processed_idx that the chunk does not hold are tombstoned.
\* The result holds the data, the meta and the changed PKs.
dt_store_chunk(d, m, df, processed_idx, now) ==
    LET ch == get_changes_for_store_chunk(m, df, now)
        m1 == Upsert(m, ch.meta_df)
        d1 == Upsert(d, Loc(df, ch.new_idx \cup ch.changed_idx))
        deleted == get_existing_idx(m1, processed_idx \ DOMAIN df)
    IN  [data |-> Remove(d1, deleted),
         meta |-> mark_rows_deleted(m1, deleted, now),
         change_idx |-> ch.new_idx \cup ch.changed_idx \cup deleted]

\* delete_by_idx(idx, now): the data rows go, the meta rows are tombstoned
dt_delete_by_idx(d, m, idx, now) ==
    [data |-> Remove(d, idx), meta |-> mark_rows_deleted(m, idx, now)]

\* --------- datapipe.metastore.TransformMetaTable (spec 4.3; not in src/)
mark_rows_processed_success(tr, idx, process_ts) ==
    Upsert(tr, [k \in idx |->
        [process_ts |-> process_ts, is_success |-> TRUE, error |-> "None",
         priority |-> IF k \in DOMAIN tr THEN tr[k].priority ELSE 0]])

mark_rows_processed_error(tr, idx, process_ts, error) ==
    Upsert(tr, [k \in idx |->
        [process_ts |-> process_ts, is_success |-> FALSE, error |-> error,
         priority |-> IF k \in DOMAIN tr THEN tr[k].priority ELSE 0]])

\* the table left as it is
mark_all_rows_unprocessed_kept(tr) == tr

\* every row back to unprocessed: not a success, no process time, no error
mark_all_rows_unprocessed(tr) ==
    [k \in DOMAIN tr |-> [tr[k] EXCEPT !.process_ts = 0, !.is_success = FALSE,
                                       !.error = "None"]]

\* ------------------------------------ ChangeList (spec 3; not in src/)
NoChanges == NoCL

changes_append(cl, name, idx) ==
    [t \in (DOMAIN cl) \cup {name} |->
        (IF t \in DOMAIN cl THEN cl[t] ELSE {}) \cup (IF t = name THEN idx ELSE {})]

\* ------------------------------------------- the user transforms
\* pair(a_df, b_df): one row per row of a_df, joined with b_df on id
\* upper(mid_df):    one row per row of mid_df
\* rotate(loop_df):   every value replaced by the next one, the last by the first
\* saturate(loop_df): every value below MaxVal raised by one
\* fan(a_df):        (one row per row of a_df, one row per row below MaxVal)
process_batch_dfs(step, input_dfs) ==
    IF step.name = "fan"
    THEN << [k \in DOMAIN input_dfs[1] |-> 10 * input_dfs[1][k]],
            [k \in {x \in DOMAIN input_dfs[1] : input_dfs[1][x] < MaxVal} |->
                100 + input_dfs[1][k]] >>
    ELSE IF step.name = "pair"
    THEN << [k \in DOMAIN input_dfs[1] |->
               10 * input_dfs[1][k] + (IF k \in DOMAIN input_dfs[2] THEN input_dfs[2][k] ELSE 0)] >>
    ELSE IF step.name = "upper"
    THEN << [k \in DOMAIN input_dfs[1] |-> 100 + input_dfs[1][k]] >>
    ELSE IF step.name = "rotate"
    THEN << [k \in DOMAIN input_dfs[1] |-> (input_dfs[1][k] % MaxVal) + 1] >>
    ELSE << [k \in DOMAIN input_dfs[1] |->
               IF input_dfs[1][k] < MaxVal THEN input_dfs[1][k] + 1 ELSE input_dfs[1][k]] >>

\* ------------------------- BaseBatchTransformStep commit hooks
\* Defined in core_steps.py; ComputeStep.process_batch (compute.py 143-220)
\* calls neither of them.
\* store_batch_result: mark the batch's keys success at process_ts
store_batch_result(db, step, idx, process_ts) ==
    [db EXCEPT !.trmeta[step.name] = mark_rows_processed_success(@, idx, process_ts)]

\* store_batch_err: mark the batch error with str(e)
store_batch_err(db, step, idx, e, process_ts) ==
    [db EXCEPT !.trmeta[step.name] = mark_rows_processed_error(@, idx, process_ts, e)]

\* the two statements in the other order
store_batch_result_body_marking_first == <<"mark_success", "store_outputs">>

\* the statements of store_batch_result, in order: super().store_batch_result
\* (the outputs are stored), then meta_table.mark_rows_processed_success
store_batch_result_body == <<"store_outputs", "mark_success">>

\* reset_metadata: meta_table.mark_all_rows_unprocessed()
reset_metadata(db, step) ==
    [db EXCEPT !.trmeta[step.name] = mark_all_rows_unprocessed(@)]

\* ----------------------------------------- ComputeStep.process_batch
get_batch_input_dfs(db, step, idx) ==
    [i \in 1..Len(step.input_dts) |-> Loc(db.data[step.input_dts[i]], idx)]

\* the outputs stored without processed_idx
RECURSIVE store_output_batch_unprocessed(_, _, _, _, _, _)
store_output_batch_unprocessed(db, step, chunks_df, idx, now, n) ==
    IF n = 0 THEN [db |-> db, changes |-> NoChanges]
    ELSE LET prev == store_output_batch_unprocessed(db, step, chunks_df, idx, now, n - 1)
             res_dt == step.output_dts[n]
             st == dt_store_chunk(prev.db.data[res_dt], prev.db.meta[res_dt],
                                  chunks_df[n], {}, now)
         IN  [db |-> [prev.db EXCEPT !.data[res_dt] = st.data, !.meta[res_dt] = st.meta],
              changes |-> changes_append(prev.changes, res_dt, st.change_idx)]

\* for k, res_dt in enumerate(output_dts): store_chunk(...); changes.append(...)
\* for the first n outputs
RECURSIVE store_output_batch(_, _, _, _, _, _)
store_output_batch(db, step, chunks_df, idx, now, n) ==
    IF n = 0 THEN [db |-> db, changes |-> NoChanges]
    ELSE LET prev == store_output_batch(db, step, chunks_df, idx, now, n - 1)
             res_dt == step.output_dts[n]
             st == dt_store_chunk(prev.db.data[res_dt], prev.db.meta[res_dt],
                                  chunks_df[n], idx, now)
         IN  [db |-> [prev.db EXCEPT !.data[res_dt] = st.data, !.meta[res_dt] = st.meta],
              changes |-> changes_append(prev.changes, res_dt, st.change_idx)]

\* the batch without input rows left alone, as inc_process_many leaves it
delete_missing_data_skipped(db, step, idx, now, n) == [db |-> db, changes |-> NoChanges]

\* for k, res_dt in enumerate(output_dts): delete_by_idx(get_existing_idx(idx))
RECURSIVE delete_missing_data(_, _, _, _, _)
delete_missing_data(db, step, idx, now, n) ==
    IF n = 0 THEN [db |-> db, changes |-> NoChanges]
    ELSE LET prev == delete_missing_data(db, step, idx, now, n - 1)
             res_dt == step.output_dts[n]
             del_idx == get_existing_idx(prev.db.meta[res_dt], idx)
             st == dt_delete_by_idx(prev.db.data[res_dt], prev.db.meta[res_dt], del_idx, now)
         IN  [db |-> [prev.db EXCEPT !.data[res_dt] = st.data, !.meta[res_dt] = st.meta],
              changes |-> changes_append(prev.changes, res_dt, del_idx)]

Outcomes == {"ok", "fetch_failed", "transform_failed", "store_failed"}

\* sum(len(j) for j in input_dfs) > 0
nonempty(input_dfs) == \E i \in DOMAIN input_dfs : DOMAIN input_dfs[i] # {}

\* whether the batch has input rows
has_input(db, step, idx) == nonempty(get_batch_input_dfs(db, step, idx))

\* process_batch with a store-failure handler that yields the changes
\* appended before the failure
process_input_dfs_yielding_partial(db, step, idx, input_dfs, now, outcome, at) ==
    LET logged(d) == [db |-> d, yielded |-> FALSE, changes |-> NoChanges, logged |-> TRUE]
    IN  IF nonempty(input_dfs)
        THEN IF outcome = "transform_failed" THEN logged(db)
             ELSE LET chunks_df == process_batch_dfs(step, input_dfs) IN
                  IF outcome = "store_failed"
                  THEN LET st == store_output_batch(db, step, chunks_df, idx, now, at - 1)
                       IN  [db |-> st.db, yielded |-> TRUE, changes |-> st.changes,
                            logged |-> TRUE]
                  ELSE LET st == store_output_batch(db, step, chunks_df, idx, now,
                                                    Len(step.output_dts))
                       IN  [db |-> st.db, yielded |-> TRUE, changes |-> st.changes,
                            logged |-> FALSE]
        ELSE LET st == delete_missing_data(db, step, idx, now, Len(step.output_dts))
             IN  [db |-> st.db, yielded |-> TRUE, changes |-> st.changes,
                  logged |-> FALSE]

\* process_batch once input_dfs is read: transform and store, or delete.
\* Result: the database, whether a change list was yielded and which, and
\* whether an exception was logged.  Each handler logs and returns; no path
\* touches the transform meta.
process_input_dfs(db, step, idx, input_dfs, now, outcome, at) ==
    LET logged(d) == [db |-> d, yielded |-> FALSE, changes |-> NoChanges, logged |-> TRUE]
    IN  IF nonempty(input_dfs)
        THEN IF outcome = "transform_failed" THEN logged(db)
             ELSE LET chunks_df == process_batch_dfs(step, input_dfs) IN
                  IF outcome = "store_failed"
                  THEN logged(store_output_batch(db, step, chunks_df, idx, now, at - 1).db)
                  ELSE LET st == store_output_batch(db, step, chunks_df, idx, now,
                                                    Len(step.output_dts))
                       IN  [db |-> st.db, yielded |-> TRUE, changes |-> st.changes,
                            logged |-> FALSE]
        ELSE LET st == delete_missing_data(db, step, idx, now, Len(step.output_dts))
             IN  [db |-> st.db, yielded |-> TRUE, changes |-> st.changes,
                  logged |-> FALSE]

\* a failed read taken for a batch without input rows
process_batch_unfetched(db, step, idx, now, outcome, at) ==
    IF outcome = "fetch_failed"
    THEN process_input_dfs(db, step, idx, [i \in 1..Len(step.input_dts) |-> EmptyDF],
                           now, "ok", at)
    ELSE process_input_dfs(db, step, idx, get_batch_input_dfs(db, step, idx),
                           now, outcome, at)

\* process_batch(ds, idx) on the database db = [data, meta, trmeta] at time
\* now, with the failure `outcome` names (a store failure hits output `at`)
process_batch(db, step, idx, now, outcome, at) ==
    IF outcome = "fetch_failed"
    THEN [db |-> db, yielded |-> FALSE, changes |-> NoChanges, logged |-> TRUE]
    ELSE process_input_dfs(db, step, idx, get_batch_input_dfs(db, step, idx),
                           now, outcome, at)

\* ------------------------------------------------ ComputeStep.run_full
\* for idx in idx_gen: process_batch(idx), no batch failing
RECURSIVE run_batches(_, _, _, _)
run_batches(db, step, batches, now) ==
    IF batches = <<>> THEN [db |-> db, now |-> now]
    ELSE Let(process_batch(db, step, SeqToSet(Head(batches)), now, "ok", 0),
             LAMBDA res : run_batches(res.db, step, Tail(batches), now + 1))

run_full(drv, size, db, step, now) ==
    LET plan == get_full_process_ids(drv, step, db.meta, db.trmeta, size)
    IN  IF plan.idx_count = 0 THEN [db |-> db, now |-> now]
        ELSE run_batches(db, step, plan.idx_gen, now)

\* run_steps: run_full of the first n steps, in order
RECURSIVE run_steps(_, _, _, _, _)
run_steps(drv, size, db, n, now) ==
    IF n = 0 THEN [db |-> db, now |-> now]
    ELSE Let(run_steps(drv, size, db, n - 1, now),
             LAMBDA prev : run_full(drv, size, prev.db, steps[n], prev.now))

\* ------------------------------------------------------- the pipeline
InputTables == {"a", "b"}

OutputTables == {"mid", "out"}

DB == [data |-> data, meta |-> meta, trmeta |-> trmeta]

Init ==
    /\ data = NoTables
    /\ meta = NoTables
    /\ trmeta = NoTrMeta
    /\ clock = 1
    /\ last = [op |-> "init"]
    /\ driver \in {"sqlite", "postgresql"}
    /\ chunk_size \in 1..NKeys
    /\ pc = "idle" /\ step_i = 0 /\ idx_gen = <<>>
    /\ event_log = {} /\ nmut = 0 /\ nfail = 0
    /\ dirty = FALSE /\ each_run = TRUE /\ hist = NoHist /\ workers = <<>>
    /\ pipeline = "chain" /\ current_changes = NoCL /\ iteration = 0

\* the steps reading table t
Readers(t) == {i \in 1..Len(steps) : t \in SeqToSet(steps[i].input_dts)}

\* the keys whose row in a table differs between two contents of it
Differ(f, g) ==
    {k \in Keys : (k \in DOMAIN f) # (k \in DOMAIN g)
                    \/ (k \in DOMAIN f /\ k \in DOMAIN g /\ f[k] # g[k])}

\* rows idx of table t changed: a success of a reading step on them is stale
InputChanged(h, t, idx) ==
    [n \in StepNames |->
        IF \E i \in Readers(t) : steps[i].name = n
        THEN [k \in Keys |-> IF k \in idx /\ h[n][k] \in {"ok", "retried_ok"}
                              THEN "none" ELSE h[n][k]]
        ELSE h[n]]

Mutated(t, idx) ==
    /\ nmut' = nmut + 1
    /\ dirty' = TRUE
    /\ each_run' = (each_run /\ ~dirty)
    /\ clock' = clock + 1
    /\ hist' = InputChanged(hist, t, idx)
    /\ UNCHANGED <<trmeta, conf, driver_loop, executor, pc, step_i, idx_gen, event_log, nfail>>

\* an input row is inserted or updated: store_chunk of a one-row chunk
IngestInto(t) ==
    \E k \in Keys, v \in Vals :
        LET df == [x \in {k} |-> v]
            st == dt_store_chunk(data[t], meta[t], df, {}, clock)
        IN  /\ pc = "idle" /\ nmut < MaxMutations /\ clock < MaxClock
            /\ data' = [data EXCEPT ![t] = st.data]
            /\ meta' = [meta EXCEPT ![t] = st.meta]
            /\ last' = [op |-> "ingest", table |-> t, df |-> df, now |-> clock,
                        ret |-> st.change_idx]
            /\ Mutated(t, st.change_idx)

Ingest == \E t \in InputTables : IngestInto(t)

\* an input row is deleted: delete_by_idx of one live PK
DeleteFrom(t) ==
    \E k \in Keys :
        LET st == dt_delete_by_idx(data[t], meta[t], {k}, clock)
        IN  /\ pc = "idle" /\ nmut < MaxMutations /\ clock < MaxClock
            /\ k \in get_existing_idx(meta[t], {k})
            /\ data' = [data EXCEPT ![t] = st.data]
            /\ meta' = [meta EXCEPT ![t] = st.meta]
            /\ last' = [op |-> "delete", table |-> t, idx |-> {k}, now |-> clock]
            /\ Mutated(t, {k})

DeleteInput == \E t \in InputTables : DeleteFrom(t)

\* run_steps(ds, steps) starts
RunSteps ==
    /\ pc = "idle" /\ clock < MaxClock
    /\ pc' = "plan" /\ step_i' = 1
    /\ dirty' = FALSE
    /\ last' = [op |-> "run_steps"]
    /\ UNCHANGED <<data, meta, trmeta, clock, conf, driver_loop, executor, idx_gen, event_log,
                   nmut, nfail, each_run, hist>>

\* the step at step_i is done: the next step, or run_steps returns
StepDone ==
    IF step_i = Len(steps) THEN pc' = "idle" /\ step_i' = 0
    ELSE pc' = "plan" /\ step_i' = step_i + 1

\* step.run_full(ds) plans its batches, and returns when there is none
RunFull ==
    /\ pc = "plan"
    /\ \E plan \in {get_full_process_ids(driver, steps[step_i], meta, trmeta, chunk_size)} :
           /\ last' = [op |-> "get_full_process_ids", step |-> steps[step_i].name,
                       ret |-> plan]
           /\ IF plan.idx_count = 0
              THEN StepDone /\ idx_gen' = <<>>
              ELSE pc' = "batch" /\ idx_gen' = plan.idx_gen /\ UNCHANGED step_i
    /\ UNCHANGED <<data, meta, trmeta, clock, conf, driver_loop, executor, event_log, nmut,
                   nfail, dirty, each_run, hist>>

\* how the batch of step n on idx ended, and which output rows it changed
Ended(h, n, idx, outcome) ==
    [h EXCEPT ![n] = [k \in Keys |->
        IF k \notin idx \/ outcome = "store_failed" THEN h[n][k]
        ELSE IF outcome = "fetch_failed" /\ h[n][k] = "transform_failed" THEN h[n][k]
        ELSE IF outcome = "ok" /\ h[n][k] \in {"transform_failed", "retried_ok"}
             THEN "retried_ok"
        ELSE outcome]]

RECURSIVE OutputsChanged(_, _, _, _)
OutputsChanged(h, step, d, n) ==
    IF n = 0 THEN h
    ELSE LET t == step.output_dts[n]
         IN  InputChanged(OutputsChanged(h, step, d, n - 1), t, Differ(data[t], d[t]))

\* the loop stopped by a batch that logged an exception
remaining_batches_aborting(batches, res) == IF res.logged THEN <<>> ELSE Tail(batches)

\* for idx in idx_gen: for i in self.process_batch(...): pass -- the loop goes
\* on to the next idx whatever process_batch yielded
remaining_batches(batches, res) == Tail(batches)

\* step.process_batch(ds, idx) of the next batch, with any outcome
ProcessBatch ==
    /\ pc = "batch"
    /\ \E outcome \in Outcomes, at \in 1..Len(steps[step_i].output_dts) :
        LET step == steps[step_i]
            idx == SeqToSet(Head(idx_gen))
        IN
        \E res \in {process_batch(DB, step, idx, clock, outcome, at)} :
            /\ outcome # "ok" => nfail < MaxFailures
            /\ outcome \in {"transform_failed", "store_failed"} => has_input(DB, step, idx)
            /\ data' = res.db.data
            /\ meta' = res.db.meta
            /\ trmeta' = res.db.trmeta
            /\ event_log' = IF res.logged
                            THEN event_log \cup {[step |-> step.name, idx |-> idx]}
                            ELSE event_log
            /\ nfail' = IF outcome = "ok" THEN nfail ELSE nfail + 1
            /\ clock' = clock + 1
            /\ last' = [op |-> "process_batch", step |-> step.name, idx |-> idx,
                        outcome |-> outcome, now |-> clock, yielded |-> res.yielded,
                        changes |-> res.changes]
            /\ idx_gen' = remaining_batches(idx_gen, res)
            /\ IF remaining_batches(idx_gen, res) = <<>> THEN StepDone
               ELSE UNCHANGED <<pc, step_i>>
            /\ hist' = OutputsChanged(Ended(hist, step.name, idx, outcome), step,
                                       res.db.data, Len(step.output_dts))
            /\ UNCHANGED <<conf, driver_loop, executor, nmut, dirty, each_run>>

Next == Ingest \/ DeleteInput \/ RunSteps \/ RunFull \/ ProcessBatch

\* input mutations and full runs of the two-step pipeline, one at a time
Spec == Init /\ [][Next]_vars

\* a run_steps pass has completed after the last input mutation, no batch
\* having failed
PassDone == pc = "idle" /\ ~dirty /\ nfail = 0 /\ last.op # "init"

\* the PKs step st's transform emits into its n-th output from the whole inputs
Emitted(st, n) == DOMAIN process_batch_dfs(st, get_batch_input_dfs(DB, st, Keys))[n]

Gone(t, k) ==
    /\ k \notin DOMAIN data[t]
    /\ k \in DOMAIN meta[t] => meta[t][k].delete_ts # NULL

\* C4 (deletion propagation): at the end of a failure-free run_steps pass, a
\* PK that is in no input table of a step has no row in the step's output
\* data and is tombstoned in the output meta, and the PKs the inputs still
\* give output rows for have their output rows.
C4_DeletionPropagation ==
    PassDone =>
        \A n \in 1..Len(steps), k \in Keys :
            LET st == steps[n] IN
            /\ (\A i \in 1..Len(st.input_dts) : k \notin DOMAIN data[st.input_dts[i]])
                   => \A j \in 1..Len(st.output_dts) : Gone(st.output_dts[j], k)
            /\ \A j \in 1..Len(st.output_dts) :
                   k \in Emitted(st, j) => k \in DOMAIN data[st.output_dts[j]]

\* a pass deleted the output rows of a PK gone from the inputs and kept
\* another PK's
C4_Witness ==
    /\ PassDone
    /\ \E k \in Keys, k2 \in Keys :
           /\ k \in DOMAIN meta["a"] /\ meta["a"][k].delete_ts # NULL
           /\ k \notin DOMAIN data["b"]
           /\ k \in DOMAIN meta["mid"] /\ Gone("mid", k)
           /\ k \in DOMAIN meta["out"] /\ Gone("out", k)
           /\ k2 \in DOMAIN data["a"] /\ k2 \in DOMAIN data["out"]

\* delete all outputs, clear all transform meta
reset_outputs(db) ==
    [data   |-> [t \in DOMAIN db.data |-> IF t \in OutputTables THEN EmptyDF ELSE db.data[t]],
     meta   |-> [t \in DOMAIN db.meta |-> IF t \in OutputTables THEN EmptyDF ELSE db.meta[t]],
     trmeta |-> NoTrMeta]

\* ... and run the steps once on the inputs as they are
FullRecompute == run_steps(driver, chunk_size, reset_outputs(DB), Len(steps), clock).db

\* C1 (incremental equals full): when every input mutation so far was
\* followed by a run_steps pass and no batch failed, the live rows of every
\* output table are those a recomputation from scratch on the current inputs
\* gives.
C1_IncrementalEqualsFull ==
    (PassDone /\ each_run) =>
        \A t \in OutputTables : data[t] = FullRecompute.data[t]

\* an input row was ingested, processed, updated and processed again
C1_Witness ==
    /\ PassDone /\ each_run
    /\ \E k \in Keys :
           /\ k \in DOMAIN data["a"] /\ k \in DOMAIN data["out"]
           /\ meta["a"][k].update_ts > meta["a"][k].create_ts
           /\ meta["out"][k].update_ts > meta["out"][k].create_ts

\* the step whose batch is being processed, and the batch
BatchStep == steps[step_i].name

BatchIdx == SeqToSet(Head(idx_gen))

\* C8 (retry after transform error): at every planning of a step, the keys
\* whose batch last failed in the transform are returned, and the keys that
\* were processed successfully after such a failure, with no input row
\* changed since, are not.
C8_RetryAfterTransformError ==
    last.op = "get_full_process_ids" =>
        \A k \in Keys :
            /\ hist[last.step][k] = "transform_failed" => k \in Planned
            /\ hist[last.step][k] = "retried_ok" => k \notin Planned

\* C9 (transform error persisted): a batch whose transform raises leaves a
\* transform-meta row with is_success = false and the exception text for each
\* of its keys, writes no table, and the step goes on with the next batch.
C9_TransformErrorPersisted ==
    [][(pc = "batch" /\ last'.op = "process_batch" /\ last'.outcome = "transform_failed") =>
          /\ \A k \in BatchIdx :
                 /\ k \in DOMAIN trmeta'[BatchStep]
                 /\ ~trmeta'[BatchStep][k].is_success
                 /\ trmeta'[BatchStep][k].error = "transform failed"
          /\ data' = data /\ meta' = meta
          /\ idx_gen' = Tail(idx_gen)]_vars

\* C10 (input fetch failure): a batch whose input read fails is logged
\* against its index, yields nothing and leaves every table and the
\* transform meta as they were, the step goes on with the next batch, and
\* the keys are returned at the later plannings of the step.
C10_FetchFailure ==
    [][/\ (pc = "batch" /\ last'.op = "process_batch" /\ last'.outcome = "fetch_failed") =>
              /\ [step |-> BatchStep, idx |-> BatchIdx] \in event_log'
              /\ ~last'.yielded
              /\ data' = data /\ meta' = meta /\ trmeta' = trmeta
              /\ idx_gen' = Tail(idx_gen)
       /\ last'.op = "get_full_process_ids" =>
              \A k \in Keys : hist[last'.step][k] = "fetch_failed" => k \in Planned'
      ]_vars

\* a step is planned again after one of its batches failed to read its
\* input, and the batch's keys are returned
C10_Witness ==
    /\ last.op = "get_full_process_ids"
    /\ \E k \in Keys :
           /\ hist[last.step][k] = "fetch_failed"
           /\ k \in Planned
           /\ \E e \in event_log : e.step = last.step /\ k \in e.idx

\* C11 (output write error): a batch whose output store fails leaves a
\* transform-meta row with is_success = false and the error for each of its
\* keys, none of them marked success by that attempt.
C11_StoreErrorPersisted ==
    [][(pc = "batch" /\ last'.op = "process_batch" /\ last'.outcome = "store_failed") =>
          \A k \in BatchIdx :
              /\ k \in DOMAIN trmeta'[BatchStep]
              /\ ~trmeta'[BatchStep][k].is_success
              /\ trmeta'[BatchStep][k].error # "None"]_vars

C14_DeleteBatch ==
    [][(/\ pc = "batch" /\ last'.op = "process_batch" /\ last'.outcome = "ok"
        /\ ~has_input(DB, steps[step_i], BatchIdx)) =>
          /\ last'.yielded
          /\ DOMAIN last'.changes = SeqToSet(steps[step_i].output_dts)
          /\ \A t \in SeqToSet(steps[step_i].output_dts) :
                 LET del_idx == get_existing_idx(meta[t], BatchIdx) IN
                 /\ last'.changes[t] = del_idx
                 /\ data'[t] = Remove(data[t], del_idx)
                 /\ meta'[t] = mark_rows_deleted(meta[t], del_idx, last'.now)
          /\ \A k \in BatchIdx :
                 /\ k \in DOMAIN trmeta'[BatchStep]
                 /\ trmeta'[BatchStep][k].is_success
                 /\ trmeta'[BatchStep][k].process_ts = last'.now]_vars

\* the PKs tombstoned in meta m2 that were live in meta m1
Tombstoned(m1, m2) ==
    {k \in DOMAIN m2 : m2[k].delete_ts # NULL /\ k \in DOMAIN m1 /\ m1[k].delete_ts = NULL}

IterationCap == 100

\* ChangeList.extend(other): append every table of other
changes_extend(c, other) ==
    [t \in (DOMAIN c) \cup (DOMAIN other) |->
        (IF t \in DOMAIN c THEN c[t] ELSE {}) \cup (IF t \in DOMAIN other THEN other[t] ELSE {})]

\* ChangeList.empty()
changes_empty(c) == DOMAIN c = {}

\* a set of keys as an index frame, in key order
RECURSIVE SetToSeq(_)
SetToSeq(S) ==
    IF S = {} THEN <<>>
    ELSE LET m == CHOOSE x \in S : \A y \in S : x <= y IN <<m>> \o SetToSeq(S \ {m})

\* every key taken for changed, whatever the change list holds
get_change_list_process_ids_all(step, change_list, size) ==
    [idx_count |-> Cardinality(Keys), idx_gen |-> read_chunks(SetToSeq(Keys), size)]

\* get_change_list_process_ids: the change list's indexes of the step's
\* inputs, concatenated without duplicates and cut into chunks; the count
\* returned is len(idx)
get_change_list_process_ids(step, change_list, size) ==
    LET idx == UNION {change_list[t] : t \in SeqToSet(step.input_dts) \cap DOMAIN change_list}
    IN  [idx_count |-> Cardinality(idx), idx_gen |-> read_chunks(SetToSeq(idx), size)]

\* for idx in idx_gen: res_changelist.extend(process_batch(idx))
RECURSIVE run_changelist_batches(_, _, _, _, _)
run_changelist_batches(db, step, batches, now, res_changelist) ==
    IF batches = <<>> THEN [db |-> db, now |-> now, changes |-> res_changelist]
    ELSE Let(process_batch(db, step, SeqToSet(Head(batches)), now, "ok", 0),
             LAMBDA res : run_changelist_batches(res.db, step, Tail(batches), now + 1,
                              changes_extend(res_changelist, res.changes)))

\* step.run_changelist(ds, change_list)
run_changelist(size, db, step, change_list, now) ==
    LET plan == get_change_list_process_ids(step, change_list, size)
    IN  IF plan.idx_count = 0 THEN [db |-> db, now |-> now, changes |-> NoCL]
        ELSE run_changelist_batches(db, step, plan.idx_gen, now, NoCL)

\* every step run on the changes of the steps before it as well
RECURSIVE changelist_pass_cascading(_, _, _, _, _, _)
changelist_pass_cascading(size, db, stps, n, current, now) ==
    IF n = 0 THEN [db |-> db, now |-> now, changes |-> NoCL]
    ELSE Let(changelist_pass_cascading(size, db, stps, n - 1, current, now),
             LAMBDA prev :
                 Let(run_changelist(size, prev.db, stps[n],
                                    changes_extend(current, prev.changes), prev.now),
                     LAMBDA res : [db |-> res.db, now |-> res.now,
                                   changes |-> changes_extend(prev.changes, res.changes)]))

\* for step in steps: next_changes.extend(step.run_changelist(ds, current_changes)),
\* for the first n steps
RECURSIVE changelist_pass(_, _, _, _, _, _)
changelist_pass(size, db, stps, n, current, now) ==
    IF n = 0 THEN [db |-> db, now |-> now, changes |-> NoCL]
    ELSE Let(changelist_pass(size, db, stps, n - 1, current, now),
             LAMBDA prev :
                 Let(run_changelist(size, prev.db, stps[n], current, prev.now),
                     LAMBDA res : [db |-> res.db, now |-> res.now,
                                   changes |-> changes_extend(prev.changes, res.changes)]))

\* the loop without its cap
loop_continues_uncapped(current, it) == ~changes_empty(current)

\* while not current_changes.empty() and iteration < 100
loop_continues(current, it) == ~changes_empty(current) /\ it < IterationCap

\* the tables of a step list
TablesOf(stps) ==
    UNION {SeqToSet(stps[i].input_dts) \cup SeqToSet(stps[i].output_dts) : i \in 1..Len(stps)}

\* run_steps_changelist(ds, steps, changelist) is called on one of the
\* pipelines, its first table holding some rows, with any change list of one
\* table or none
InitChangelist ==
    \E pl \in DOMAIN Pipelines, df \in Frames(Keys, Vals) :
        LET first == Pipelines[pl][1].input_dts[1]
            st == dt_store_chunk(EmptyDF, EmptyDF, df, {}, 1)
        IN  /\ pipeline = pl
            /\ data = [NoTables EXCEPT ![first] = st.data]
            /\ meta = [NoTables EXCEPT ![first] = st.meta]
            /\ current_changes \in {NoCL} \cup
                   {changes_append(NoCL, t, idx) :
                        t \in TablesOf(Pipelines[pl]), idx \in SUBSET Keys}
            /\ iteration = 0
            /\ trmeta = NoTrMeta
            /\ clock = 2
            /\ last = [op |-> "init"]
            /\ driver = "sqlite"
            /\ chunk_size \in 1..NKeys
            /\ pc = "changelist" /\ step_i = 0 /\ idx_gen = <<>>
            /\ event_log = {} /\ nmut = 0 /\ nfail = 0
            /\ dirty = FALSE /\ each_run = TRUE /\ hist = NoHist /\ workers = <<>>

\* one turn of the while loop: every step run on current_changes, then
\* current_changes = next_changes and iteration += 1
Iterate ==
    /\ pc = "changelist"
    /\ loop_continues(current_changes, iteration)
    /\ \E res \in {changelist_pass(chunk_size, DB, Pipelines[pipeline],
                                    Len(Pipelines[pipeline]), current_changes, clock)} :
           /\ data' = res.db.data
           /\ meta' = res.db.meta
           /\ trmeta' = res.db.trmeta
           /\ clock' = res.now
           /\ current_changes' = res.changes
           /\ last' = [op |-> "changelist_pass", changes |-> current_changes]
    /\ iteration' = iteration + 1
    /\ UNCHANGED <<conf, run, executor, pipeline>>

\* the loop condition is false: run_steps_changelist returns
Finish ==
    /\ pc = "changelist"
    /\ ~loop_continues(current_changes, iteration)
    /\ pc' = "done"
    /\ last' = [op |-> "run_steps_changelist"]
    /\ UNCHANGED <<data, meta, trmeta, clock, conf, driver_loop, executor, step_i, idx_gen,
                   event_log, nmut, nfail, dirty, each_run, hist>>

NextChangelist == Iterate \/ Finish

\* run_steps_changelist on a pipeline and a change list
SpecChangelist == InitChangelist /\ [][NextChangelist]_vars

\* t2 is written by a step that reads a table among T
Fed(stps, T) ==
    UNION {SeqToSet(stps[i].output_dts) :
               i \in {j \in 1..Len(stps) : SeqToSet(stps[j].input_dts) \cap T # {}}}

RECURSIVE Downstream(_, _, _)
Downstream(stps, T, n) ==
    IF n = 0 THEN {} ELSE Fed(stps, T) \cup Downstream(stps, Fed(stps, T), n - 1)

\* some table is downstream of itself
Cyclic(stps) ==
    \E t \in TablesOf(stps) : t \in Downstream(stps, {t}, Cardinality(TablesOf(stps)))

Returned == pc = "done"

\* run_steps_changelist processed a batch (the clock is 2 when it is called)
BatchProcessed == clock > 2

\* C7 (change-list fixed point), as claimed: at most 100 iterations, a stop
\* only on an empty change list or at the cap, an acyclic pipeline stopped on
\* an empty change list short of the cap, and a cyclic pipeline that
\* processed a batch stopped at the cap.
C7_ChangeListFixedPoint ==
    /\ iteration <= IterationCap
    /\ Returned =>
         /\ changes_empty(current_changes) \/ iteration = IterationCap
         /\ ~Cyclic(Pipelines[pipeline]) =>
                changes_empty(current_changes) /\ iteration < IterationCap
         /\ (Cyclic(Pipelines[pipeline]) /\ BatchProcessed) => iteration = IterationCap

\* C7 amended: run_steps_changelist makes at most 100 iterations, each one
\* on a change list that is not empty and each one counted, and returns on
\* an empty change list or at the cap; an acyclic pipeline of n steps
\* returns on an empty change list after at most n + 1 iterations.
C7_ChangeListFixedPointAmended ==
    /\ [](iteration <= IterationCap)
    /\ [][iteration' # iteration =>
            /\ iteration' = iteration + 1
            /\ ~changes_empty(current_changes)
            /\ iteration < IterationCap]_vars
    /\ [](Returned =>
            /\ changes_empty(current_changes) \/ iteration = IterationCap
            /\ ~Cyclic(Pipelines[pipeline]) =>
                   /\ changes_empty(current_changes)
                   /\ iteration <= Len(Pipelines[pipeline]) + 1)

\* a cyclic pipeline returned at the cap, its change list not empty
C7_Witness ==
    /\ Returned
    /\ Cyclic(Pipelines[pipeline])
    /\ iteration = IterationCap
    /\ ~changes_empty(current_changes)

\* the keys the change list names for the inputs of step st
ChangedFor(st, change_list) ==
    UNION {change_list[t] : t \in SeqToSet(st.input_dts) \cap DOMAIN change_list}

\* C16 (change-list locality): an iteration of run_steps_changelist leaves,
\* for every step, the output rows, their row meta and the transform-meta
\* rows of every key that the current change list does not name for one of
\* the step's own inputs as they were.
C16_ChangeListLocality ==
    [][iteration' # iteration =>
          \A i \in 1..Len(Pipelines[pipeline]) :
              LET st == Pipelines[pipeline][i]
                  idx == ChangedFor(st, current_changes)
              IN  /\ Remove(trmeta'[st.name], idx) = Remove(trmeta[st.name], idx)
                  /\ \A n \in 1..Len(st.output_dts) :
                         /\ Remove(data'[st.output_dts[n]], idx)
                                = Remove(data[st.output_dts[n]], idx)
                         /\ Remove(meta'[st.output_dts[n]], idx)
                                = Remove(meta[st.output_dts[n]], idx)]_vars

\* the first step processed a key the change list named and left alone a
\* stale key it did not name
C16_Witness ==
    /\ pipeline = "chain" /\ iteration = 1
    /\ last.op = "changelist_pass" /\ "a" \in DOMAIN last.changes
    /\ \E k \in Keys, k2 \in Keys :
           /\ k \in DOMAIN data["a"] /\ Stale(steps[1], k)
           /\ k \notin DOMAIN meta["mid"]
           /\ k \notin last.changes["a"]
           /\ k2 \in last.changes["a"] /\ k2 \in DOMAIN data["mid"]


\* ------------------------------------- the executor and the commit hook
\* A step whose batches end in store_batch_result, run by an executor that
\* may run the batches of the step at the same time and may be aborted
\* inside a batch (spec 4.5 and 5).

\* the write of output n of a batch (ComputeStep.store_batch_result, spec 4.5
\* steps 2 and 5): store_chunk of the transform's n-th frame with
\* processed_idx = idx, or delete_by_idx of the live rows of idx when no
\* input has a row
write_output(db, step, idx, now, n) ==
    LET input_dfs == get_batch_input_dfs(db, step, idx)
        res_dt == step.output_dts[n]
        st == IF nonempty(input_dfs)
              THEN dt_store_chunk(db.data[res_dt], db.meta[res_dt],
                                  process_batch_dfs(step, input_dfs)[n], idx, now)
              ELSE dt_delete_by_idx(db.data[res_dt], db.meta[res_dt],
                                    get_existing_idx(db.meta[res_dt], idx), now)
    IN  [db EXCEPT !.data[res_dt] = st.data, !.meta[res_dt] = st.meta]

RECURSIVE write_outputs(_, _, _, _, _)
write_outputs(db, step, idx, now, n) ==
    IF n = 0 THEN db
    ELSE Let(write_outputs(db, step, idx, now, n - 1),
             LAMBDA prev : write_output(prev, step, idx, now, n))

\* a batch run from its first output write to the transform-meta write
complete_batch(db, step, idx, now) ==
    Let(write_outputs(db, step, idx, now, Len(step.output_dts)),
        LAMBDA written : store_batch_result(written, step, idx, now))

Done == Len(store_batch_result_body) + 1

Aborted == 0

Active(w) == w.pos \in 1..Len(store_batch_result_body)

\* the keys of step st that are not stale
Fresh(st) == {k \in KnownKeys(st) : ~Stale(st, k)}

InitExecutor ==
    /\ data = NoTables
    /\ meta = NoTables
    /\ trmeta = NoTrMeta
    /\ clock = 1
    /\ last = [op |-> "init"]
    /\ driver = "sqlite"
    /\ chunk_size \in 1..NKeys
    /\ pc = "idle" /\ step_i = 0 /\ idx_gen = <<>>
    /\ event_log = {} /\ nmut = 0 /\ nfail = 0
    /\ dirty = FALSE /\ each_run = TRUE /\ hist = NoHist /\ workers = <<>>
    /\ pipeline = "chain" /\ current_changes = NoCL /\ iteration = 0

\* run_full plans the step and hands every batch to the executor.  A batch
\* that was aborted and is planned again on unchanged inputs is a replay: it
\* keeps the database its first attempt started from and the number of
\* outputs the aborted attempt had stored.
ExecStart ==
    /\ pc = "idle" /\ clock < MaxClock
    /\ \E plan \in {get_full_process_ids(driver, fan_step, meta, trmeta, chunk_size)} :
          /\ last' = [op |-> "get_full_process_ids", step |-> fan_step.name, ret |-> plan]
          /\ workers' =
                [i \in 1..Len(plan.idx_gen) |->
                    LET idx == SeqToSet(plan.idx_gen[i])
                        prev == {j \in DOMAIN workers :
                                    workers[j].idx = idx /\ workers[j].pos = Aborted}
                        replay == prev # {} /\ ~dirty
                        p == IF replay THEN workers[CHOOSE j \in prev : TRUE]
                             ELSE [origin |-> DB, stored |-> 0]
                    IN  [idx |-> idx, pos |-> 1, stored |-> 0, now |-> clock + i - 1,
                         replay |-> replay, origin |-> p.origin, cut |-> p.stored,
                         forced |-> IF last.op = "reset_metadata"
                                    THEN idx \cap last.fresh ELSE {}]]
          /\ pc' = IF plan.idx_count = 0 THEN "idle" ELSE "exec"
          /\ clock' = clock + Len(plan.idx_gen)
    /\ dirty' = FALSE
    /\ UNCHANGED <<data, meta, trmeta, conf, driver_loop, step_i, idx_gen, event_log,
                   nmut, nfail, each_run, hist>>

\* "idle" once no batch is running
Settled(ws) == IF \E j \in DOMAIN ws : Active(ws[j]) THEN "exec" ELSE "idle"

\* batch i: the next output is stored
ExecStore(i) ==
    /\ pc = "exec" /\ Active(workers[i])
    /\ store_batch_result_body[workers[i].pos] = "store_outputs"
    /\ LET w == workers[i]
           n == w.stored + 1
           db == write_output(DB, fan_step, w.idx, w.now, n)
           ws == [workers EXCEPT ![i].stored = n,
                      ![i].pos = IF n = Len(fan_step.output_dts) THEN w.pos + 1 ELSE w.pos]
       IN  /\ data' = db.data
           /\ meta' = db.meta
           /\ workers' = ws
           /\ pc' = Settled(ws)
           /\ last' = [op |-> "store_output", batch |-> i, output |-> fan_step.output_dts[n]]
    /\ UNCHANGED <<trmeta, clock, conf, driver_loop, step_i, idx_gen, event_log,
                   nmut, nfail, dirty, each_run, hist>>

\* batch i: meta_table.mark_rows_processed_success(idx, process_ts)
ExecMark(i) ==
    /\ pc = "exec" /\ Active(workers[i])
    /\ store_batch_result_body[workers[i].pos] = "mark_success"
    /\ LET w == workers[i]
           ws == [workers EXCEPT ![i].pos = w.pos + 1]
       IN  /\ trmeta' = store_batch_result(DB, fan_step, w.idx, w.now).trmeta
           /\ workers' = ws
           /\ pc' = Settled(ws)
           /\ last' = [op |-> "mark_success", batch |-> i]
    /\ UNCHANGED <<data, meta, clock, conf, driver_loop, step_i, idx_gen, event_log,
                   nmut, nfail, dirty, each_run, hist>>

\* batch i is aborted where it stands
ExecAbort(i) ==
    /\ pc = "exec" /\ Active(workers[i])
    /\ nfail < MaxFailures
    /\ LET ws == [workers EXCEPT ![i].pos = Aborted]
       IN  /\ workers' = ws
           /\ pc' = Settled(ws)
    /\ nfail' = nfail + 1
    /\ last' = [op |-> "abort", batch |-> i]
    /\ UNCHANGED <<data, meta, trmeta, clock, conf, driver_loop, step_i, idx_gen,
                   event_log, nmut, dirty, each_run, hist>>

\* step.reset_metadata(ds)
ResetMetadata ==
    /\ pc = "idle" /\ last.op # "reset_metadata"
    /\ trmeta' = reset_metadata(DB, fan_step).trmeta
    /\ last' = [op |-> "reset_metadata", fresh |-> Fresh(fan_step)]
    /\ UNCHANGED <<data, meta, clock, conf, driver_loop, executor, run>>

NextExecutor ==
    \/ IngestInto("a")
    \/ DeleteFrom("a")
    \/ ExecStart
    \/ \E i \in DOMAIN workers : ExecStore(i)
    \/ \E i \in DOMAIN workers : ExecMark(i)
    \/ \E i \in DOMAIN workers : ExecAbort(i)
    \/ ResetMetadata

\* input mutations, full runs of the two-output step under the executor,
\* aborts and metadata resets
SpecExecutor == InitExecutor /\ [][NextExecutor]_vars


\* batch w is marked success in the transform meta
Marked(w) ==
    \E k \in w.idx :
        /\ k \in DOMAIN trmeta[fan_step.name]
        /\ trmeta[fan_step.name][k].is_success
        /\ trmeta[fan_step.name][k].process_ts = w.now

\* every output write of batch w has landed
Landed(w) ==
    /\ w.stored = Len(fan_step.output_dts)
    /\ ~dirty =>
          \A n \in 1..Len(fan_step.output_dts) :
              Loc(data[fan_step.output_dts[n]], w.idx)
                  = process_batch_dfs(fan_step, get_batch_input_dfs(DB, fan_step, w.idx))[n]

\* C13 (commit ordering): in every state, a batch that is marked success in
\* the transform meta has all its output writes landed, whatever the other
\* batches of the step are doing at that time.
C13_CommitOrdering ==
    \A i \in DOMAIN workers : Marked(workers[i]) => Landed(workers[i])

\* one batch is committed while another batch of the step is between its
\* two output writes
C13_Witness ==
    \E i \in DOMAIN workers, j \in DOMAIN workers :
        /\ workers[i].pos = Done /\ Marked(workers[i]) /\ Landed(workers[i])
        /\ Active(workers[j]) /\ workers[j].stored = 1

\* C17 (full-refresh reset): the planning that follows reset_metadata returns
\* every transform key of the step and every planned batch is run; a store
\* of an output row whose content equals the stored content advances its
\* process_ts and leaves its hash and update_ts as they were.
C17_FullRefreshReset ==
    [][/\ (last.op = "reset_metadata" /\ last'.op = "get_full_process_ids") =>
              /\ Planned' = KnownKeys(fan_step)
              /\ UNION {workers'[i].idx : i \in DOMAIN workers'} = KnownKeys(fan_step)
       /\ last'.op = "store_output" =>
              LET w == workers[last'.batch]
                  t == last'.output
              IN  \A k \in w.idx \cap DOMAIN data[t] \cap DOMAIN data'[t] :
                      data'[t][k] = data[t][k] =>
                          /\ meta'[t][k].process_ts = w.now
                          /\ meta'[t][k].process_ts > meta[t][k].process_ts
                          /\ meta'[t][k].hash = meta[t][k].hash
                          /\ meta'[t][k].update_ts = meta[t][k].update_ts]_vars

\* a key that was not stale was reprocessed after a reset: its output row
\* has the new process_ts and the old update_ts
C17_Witness ==
    \E i \in DOMAIN workers :
        /\ workers[i].pos = Done
        /\ \E k \in workers[i].forced :
               /\ k \in DOMAIN data["mid"]
               /\ meta["mid"][k].process_ts = workers[i].now
               /\ meta["mid"][k].update_ts < workers[i].now
               /\ trmeta[fan_step.name][k].is_success

\* the state of the keys of replayed batch w against an uninterrupted run of
\* the batch from the database its first attempt started from; update_ts is
\* compared for equality on every output (strict) or only on the outputs the
\* aborted attempt had not stored
ReplayMatches(w, straight, strict) ==
    /\ Loc(trmeta[fan_step.name], w.idx) = Loc(straight.trmeta[fan_step.name], w.idx)
    /\ \A n \in 1..Len(fan_step.output_dts) :
           LET t == fan_step.output_dts[n] IN
           /\ Loc(data[t], w.idx) = Loc(straight.data[t], w.idx)
           /\ w.idx \cap DOMAIN meta[t] = w.idx \cap DOMAIN straight.meta[t]
           /\ \A k \in w.idx \cap DOMAIN meta[t] :
                  /\ meta[t][k].hash = straight.meta[t][k].hash
                  /\ IF strict \/ n > w.cut
                     THEN meta[t][k].update_ts = straight.meta[t][k].update_ts
                     ELSE meta[t][k].update_ts <= straight.meta[t][k].update_ts

ReplayAgrees(w, strict) ==
    \E straight \in {complete_batch(w.origin, fan_step, w.idx, w.now)} :
        ReplayMatches(w, straight, strict)

\* C18 (abort replay), as claimed: the keys of a batch aborted before its
\* transform-meta write are returned by the next planning, and the batch
\* run again to completion leaves output data, row-meta hash and update_ts
\* and transform meta as an uninterrupted run of the batch leaves them.
C18_AbortReplay ==
    [][/\ last'.op = "get_full_process_ids" =>
              \A j \in DOMAIN workers :
                  workers[j].pos = Aborted => workers[j].idx \subseteq Planned'
       /\ \A i \in DOMAIN workers :
              (last'.op = "mark_success" /\ last'.batch = i /\ workers[i].replay)
                  => ReplayAgrees(workers[i], TRUE)']_vars

\* C18 amended: ... output data, row-meta hash and transform meta as an
\* uninterrupted run leaves them, and update_ts too on the outputs the
\* aborted attempt had not stored; a row the aborted attempt stored keeps
\* the earlier update_ts of that attempt.
C18_AbortReplayAmended ==
    [][/\ last'.op = "get_full_process_ids" =>
              \A j \in DOMAIN workers :
                  workers[j].pos = Aborted => workers[j].idx \subseteq Planned'
       /\ \A i \in DOMAIN workers :
              (last'.op = "mark_success" /\ last'.batch = i /\ workers[i].replay)
                  => ReplayAgrees(workers[i], FALSE)']_vars

\* a batch aborted after its first output write was replayed to completion:
\* the row the aborted attempt stored is older than an uninterrupted run
\* would leave it
C18_Witness ==
    \E i \in DOMAIN workers :
        /\ workers[i].replay /\ workers[i].pos = Done /\ workers[i].cut >= 1
        /\ last.op = "mark_success" /\ last.batch = i
        /\ \E k \in workers[i].idx :
               /\ k \in DOMAIN data["mid"] /\ k \in DOMAIN data["out"]
               /\ meta["mid"][k].update_ts < workers[i].now
               /\ complete_batch(workers[i].origin, fan_step, workers[i].idx,
                                 workers[i].now).meta["mid"][k].update_ts = workers[i].now
               /\ meta["out"][k].update_ts = workers[i].now

\* ------------------------------------------- ingest passes (spec 4.2, 6)
\* get_stale_idx with <= in place of <
get_stale_idx_seen(m, now) == {k \in DOMAIN m : m[k].process_ts <= now}

\* MetaTable.get_stale_idx(now): the PKs whose process_ts < now
get_stale_idx(m, now) == {k \in DOMAIN m : m[k].process_ts < now}

\* table_store.read_rows_meta_pseudo_df(): the store's rows, PK and
\* fingerprint, in chunks
read_rows_meta_pseudo_df(d, size) == read_chunks(SetToSeq(DOMAIN d), size)

\* the first loop of update_external_table: for every listed chunk the new
\* meta rows are inserted and the meta rows of the existing PKs updated
RECURSIVE sync_listing(_, _, _, _)
sync_listing(m, d, chunks, now) ==
    IF chunks = <<>> THEN m
    ELSE Let(get_changes_for_store_chunk(m, Loc(d, SeqToSet(Head(chunks))), now),
             LAMBDA ch : sync_listing(Upsert(m, ch.meta_df), d, Tail(chunks), now))

\* update_external_table(ds, table): the listing pass, then the stale PKs
\* are marked deleted
update_external_table(d, m, size, now) ==
    Let(sync_listing(m, d, read_rows_meta_pseudo_df(d, size), now),
        LAMBDA m1 : mark_rows_deleted(m1, get_stale_idx(m1, now), now))

ExternalTables == {"a"}

\* a row of the external store appears, changes or vanishes outside the
\* pipeline: the data store changes, the meta does not
ExternalChange ==
    \E t \in ExternalTables, k \in Keys, v \in Vals \cup {NULL} :
        /\ nmut < MaxMutations
        /\ IF v = NULL THEN k \in DOMAIN data[t]
           ELSE IF k \in DOMAIN data[t] THEN data[t][k] # v ELSE TRUE
        /\ data' = [data EXCEPT ![t] =
                        IF v = NULL THEN Remove(@, {k}) ELSE Upsert(@, [x \in {k} |-> v])]
        /\ nmut' = nmut + 1
        /\ last' = [op |-> "external", table |-> t]
        /\ UNCHANGED <<meta, trmeta, clock, conf, driver_loop, executor, pc, step_i,
                       idx_gen, event_log, nfail, dirty, each_run, hist>>

\* one pass of update_external_table over an external table
UpdateExternalTable ==
    \E t \in ExternalTables :
        /\ clock < MaxClock
        /\ meta' = [meta EXCEPT ![t] = update_external_table(data[t], @, chunk_size, clock)]
        /\ clock' = clock + 1
        /\ last' = [op |-> "update_external_table", table |-> t, now |-> clock,
                    listed |-> DOMAIN data[t]]
        /\ UNCHANGED <<data, trmeta, conf, run, driver_loop, executor>>

InitIngest ==
    /\ data = NoTables
    /\ meta = NoTables
    /\ trmeta = NoTrMeta
    /\ clock = 1
    /\ last = [op |-> "init"]
    /\ driver = "sqlite"
    /\ chunk_size \in 1..NKeys
    /\ pc = "idle" /\ step_i = 0 /\ idx_gen = <<>>
    /\ event_log = {} /\ nmut = 0 /\ nfail = 0
    /\ dirty = FALSE /\ each_run = TRUE /\ hist = NoHist /\ workers = <<>>
    /\ pipeline = "chain" /\ current_changes = NoCL /\ iteration = 0

\* DataTable.store_chunk(data_df) of c12n_pipe with now = time.time()
LegacyStoreChunk ==
    \E t \in LegacyTables, df \in Frames(Keys, Vals) :
        /\ nmut < MaxMutations /\ clock < MaxClock
        /\ data' = [data EXCEPT ![t] = Upsert(@, store_chunk_to_write(meta[t], df, clock))]
        /\ meta' = [meta EXCEPT ![t] = store_chunk_meta(@, df, clock)]
        /\ clock' = clock + 1
        /\ nmut' = nmut + 1
        /\ last' = [op |-> "store_chunk", table |-> t, df |-> df, now |-> clock]
        /\ UNCHANGED <<trmeta, conf, driver_loop, executor, pc, step_i, idx_gen,
                       event_log, nfail, dirty, each_run, hist>>

NextIngest ==
    \/ ExternalChange
    \/ UpdateExternalTable
    \/ LegacyStoreChunk
    \/ \E t \in ExternalTables : IngestInto(t)

\* sync passes over an external table and store_chunk calls on a table
SpecIngest == InitIngest /\ [][NextIngest]_vars

\* the PKs with a live meta row
Live(m) == {k \in DOMAIN m : m[k].delete_ts = NULL}

\* C21 (external sync pass): after a pass of update_external_table at time
\* now, the meta rows the pass tombstoned (live before, delete_ts = now
\* after) are exactly those of the PKs that were live before the pass and
\* that the listing did not yield; every listed row has process_ts = now
\* and no delete_ts; and no other row becomes live.
C21_ExternalSyncPass ==
    [][last'.op = "update_external_table" =>
          LET t == last'.table
              now == last'.now
              listed == last'.listed
          IN  /\ {k \in Live(meta[t]) : k \in DOMAIN meta'[t] /\ meta'[t][k].delete_ts = now}
                     = Live(meta[t]) \ listed
              /\ Live(meta[t]) \ Live(meta'[t]) = Live(meta[t]) \ listed
              /\ Live(meta'[t]) = listed
              /\ \A k \in listed :
                     /\ meta'[t][k].process_ts = now
                     /\ meta'[t][k].delete_ts = NULL
              /\ DOMAIN meta[t] \subseteq DOMAIN meta'[t]]_vars

\* a pass that lists an unchanged row, a changed row or a new row and
\* tombstones a row that vanished from the store
C21_Witness ==
    /\ last.op = "update_external_table"
    /\ \E k \in last.listed :
           /\ meta[last.table][k].process_ts = last.now
           /\ meta[last.table][k].update_ts < last.now
    /\ \E k \in DOMAIN meta[last.table] :
           /\ k \notin last.listed
           /\ meta[last.table][k].delete_ts = last.now

MaxChunks == 2

\* the chunk streams a generator can yield
RECURSIVE ChunkStreams(_)
ChunkStreams(n) ==
    IF n = 0 THEN {<<>>}
    ELSE ChunkStreams(n - 1)
            \cup {Append(q, df) : q \in {c \in ChunkStreams(n - 1) : Len(c) = n - 1},
                                  df \in Frames(Keys, Vals)}

\* the PKs of the chunks of a stream
RECURSIVE Emitted_idx(_)
Emitted_idx(chunks) ==
    IF chunks = <<>> THEN {} ELSE (DOMAIN Head(chunks)) \cup Emitted_idx(Tail(chunks))

\* DataTable.delete_stale_by_process_ts(now): the rows whose process_ts <
\* now are deleted from the data and tombstoned in the meta
delete_stale_by_process_ts(d, m, now) ==
    dt_delete_by_idx(d, m, get_existing_idx(m, get_stale_idx(m, now)), now)

\* the while loop of do_batch_generate: dt.store_chunk(chunk) of every chunk
\* the generator yields, each at the time it is stored
RECURSIVE store_generated(_, _, _, _)
store_generated(d, m, chunks, now) ==
    IF chunks = <<>> THEN [data |-> d, meta |-> m]
    ELSE Let(dt_store_chunk(d, m, Head(chunks), {}, now),
             LAMBDA st : store_generated(st.data, st.meta, Tail(chunks), now + 1))

\* do_batch_generate(func, ds, [dt]): when next(iterable) raises the
\* function returns after the chunks stored so far; when the generator is
\* exhausted the stale rows are deleted
do_batch_generate(d, m, chunks, raised, now) ==
    Let(store_generated(d, m, chunks, now),
        LAMBDA st : IF raised THEN st
                    ELSE delete_stale_by_process_ts(st.data, st.meta, now))

\* the loops of gen_process_many on one c12n_pipe DataTable: store_chunk of
\* every chunk, then sync_meta of the chunks stored
RECURSIVE legacy_store_generated(_, _, _, _)
legacy_store_generated(d, m, chunks, now) ==
    IF chunks = <<>> THEN [data |-> d, meta |-> m]
    ELSE legacy_store_generated(Upsert(d, store_chunk_to_write(m, Head(chunks), now)),
                                store_chunk_meta(m, Head(chunks), now),
                                Tail(chunks), now + 1)

gen_process_many(d, m, chunks, raised, now) ==
    Let(legacy_store_generated(d, m, chunks, now),
        LAMBDA st :
            IF raised THEN st
            ELSE Let(sync_meta_deleted_idx(st.meta, Emitted_idx(chunks), Keys),
                     LAMBDA deleted_idx : [data |-> Remove(st.data, deleted_idx),
                                           meta |-> Remove(st.meta, deleted_idx)]))

GeneratedTables == {"out"}

\* a pass at time clock over table t that leaves res
GeneratePass(t, op, chunks, raised, res) ==
    /\ nmut < MaxMutations
    /\ clock + Len(chunks) < MaxClock
    /\ data' = [data EXCEPT ![t] = res.data]
    /\ meta' = [meta EXCEPT ![t] = res.meta]
    /\ clock' = clock + Len(chunks) + 1
    /\ nmut' = nmut + 1
    /\ event_log' = IF raised /\ op = "do_batch_generate"
                    THEN event_log \cup {[step |-> op, at |-> clock]} ELSE event_log
    /\ last' = [op |-> op, table |-> t, now |-> clock, chunks |-> chunks,
                raised |-> raised]
    /\ UNCHANGED <<trmeta, conf, driver_loop, executor, pc, step_i, idx_gen,
                   nfail, dirty, each_run, hist>>

\* BatchGenerate step: do_batch_generate on its output table
DoBatchGenerate ==
    \E t \in GeneratedTables, chunks \in ChunkStreams(MaxChunks), raised \in BOOLEAN :
        GeneratePass(t, "do_batch_generate", chunks, raised,
                     do_batch_generate(data[t], meta[t], chunks, raised, clock))

\* gen_process_many on one c12n_pipe DataTable
GenProcessMany ==
    \E t \in LegacyTables, chunks \in ChunkStreams(MaxChunks), raised \in BOOLEAN :
        GeneratePass(t, "gen_process_many", chunks, raised,
                     gen_process_many(data[t], meta[t], chunks, raised, clock))

NextGenerate == DoBatchGenerate \/ GenProcessMany

\* batch-generate passes, each one whole
SpecGenerate == InitIngest /\ [][NextGenerate]_vars

\* the pass that just ended ran its generator to completion and left every
\* row that was live and not emitted tombstoned and every emitted row live
StaleTombstoned ==
    LET t == last'.table
        emitted == Emitted_idx(last'.chunks)
    IN  /\ \A k \in Live(meta[t]) \ emitted :
               /\ k \notin DOMAIN data'[t]
               /\ k \in DOMAIN meta'[t]
               /\ meta'[t][k].delete_ts # NULL
        /\ \A k \in emitted :
               /\ k \in DOMAIN data'[t]
               /\ k \in Live(meta'[t])

\* C22 (batch generate): after a batch-generate pass (do_batch_generate or
\* gen_process_many) whose generator ran to completion, every output row
\* that was live before the pass and was not emitted during it is
\* tombstoned, and every row emitted during the pass is live.
C22_BatchGenerate ==
    [][(last'.op \in {"do_batch_generate", "gen_process_many"} /\ ~last'.raised)
          => StaleTombstoned]_vars

\* ------------------------------------- planning calls with a run config
\* a step with three inputs:  tri : (a, b, mid) -> out
tri_step == [name |-> "tri", input_dts |-> <<"a", "b", "mid">>, output_dts |-> <<"out">>]

\* the transform keys and the primary keys of every table: the column `id`
transform_keys == {"id"}

primary_keys == {"id"}

\* RunConfig.filters: values for a transform key (`id`), for a column that
\* is no key (`label`), for both or for none
FilterSets == UNION {[S -> Keys] : S \in SUBSET {"id", "label"}}

NoFilters == [c \in {} |-> 0]

\* _apply_filters_to_run_config: the step's filters updated by run_config's
apply_filters_to_run_config(filters, run_config) == Upsert(filters, run_config)

\* sql_apply_runconfig_filter: WHERE tbl.c = v for each filter on a primary key
sql_apply_runconfig_filter(ids, pkeys, run_config) ==
    {x \in ids : \A c \in (DOMAIN run_config) \cap pkeys : x = run_config[c]}

\* _make_agg_cte with the run config's filters applied to the input table
make_agg_cte_filtered(m, run_config) ==
    [k \in sql_apply_runconfig_filter(DOMAIN m, primary_keys, run_config) |-> m[k].update_ts]

\* _build_changed_idx_sql(ds, run_config): the filters reach the input
\* ctes; the transform cte is read whole
build_changed_idx_sql_filtered(drv, step, mt, trm, run_config) ==
    LET inp_ctes == [i \in 1..Len(step.input_dts) |->
                        make_agg_cte_filtered(mt[step.input_dts[i]], run_config)]
        inp == make_agg_of_agg(drv, inp_ctes)
    IN  order_by({j \in join_transform(inp, trm[step.name]) : changed_idx_where(j)})

\* get_full_process_ids(ds, chunk_size, run_config): the count, the chunks,
\* and the filters that are no join key, set as columns of every chunk
get_full_process_ids_filtered(drv, step, mt, trm, size, filters, run_config) ==
    LET rc == apply_filters_to_run_config(filters, run_config)
        ids == build_changed_idx_sql_filtered(drv, step, mt, trm, rc)
        extra_filters == [c \in (DOMAIN rc) \ transform_keys |-> rc[c]]
    IN  IF Len(step.input_dts) = 0
        THEN [idx_count |-> 0, idx_gen |-> <<>>, columns |-> NoFilters]
        ELSE [idx_count |-> ceil_div(Len(ids), size),
              idx_gen |-> read_chunks(ids, size),
              columns |-> extra_filters]

\* the transform-meta rows of the planning calls: processed before or after
\* the inputs' update_ts, with or without success
PlanTrRows == [process_ts : {1, MaxTime}, is_success : BOOLEAN, priority : {0}, error : {"None"}]

PlanTime == 2

InitPlanning ==
    /\ data = NoTables
    /\ \E ka \in SUBSET Keys, kb \in SUBSET Keys, km \in SUBSET Keys :
          meta = [NoTables EXCEPT !["a"] = [k \in ka |-> MetaRowAt(PlanTime)],
                                  !["b"] = [k \in kb |-> MetaRowAt(PlanTime)],
                                  !["mid"] = [k \in km |-> MetaRowAt(PlanTime)]]
    /\ \E tr \in Frames(Keys, PlanTrRows) : trmeta = [NoTrMeta EXCEPT ![tri_step.name] = tr]
    /\ clock = MaxTime
    /\ last = [op |-> "init"]
    /\ driver \in {"sqlite", "postgresql"}
    /\ chunk_size \in 1..NKeys
    /\ pc = "idle" /\ step_i = 0 /\ idx_gen = <<>>
    /\ event_log = {} /\ nmut = 0 /\ nfail = 0
    /\ dirty = FALSE /\ each_run = TRUE /\ hist = NoHist /\ workers = <<>>
    /\ pipeline = "chain" /\ current_changes = NoCL /\ iteration = 0

\* step.get_full_process_ids(ds, run_config=run_config) of a step built
\* with or without a filter on `id`
PlanFull ==
    \E filters \in {f \in FilterSets : DOMAIN f \subseteq {"id"}}, run_config \in FilterSets :
        /\ last.op = "init"
        /\ last' = [op |-> "get_full_process_ids", step |-> tri_step.name,
                    filters |-> apply_filters_to_run_config(filters, run_config),
                    ret |-> get_full_process_ids_filtered(driver, tri_step, meta, trmeta,
                                                          chunk_size, filters, run_config)]
        /\ UNCHANGED <<data, meta, trmeta, clock, conf, run, driver_loop, executor>>

\* step.get_change_list_process_ids(ds, change_list)
PlanChangeList ==
    \E ia \in SUBSET Keys, ib \in SUBSET Keys :
        /\ last.op = "init"
        /\ last' = [op |-> "get_change_list_process_ids", step |-> tri_step.name,
                    ret |-> get_change_list_process_ids(tri_step,
                                changes_append(changes_append(NoCL, "a", ia), "b", ib),
                                chunk_size)]
        /\ UNCHANGED <<data, meta, trmeta, clock, conf, run, driver_loop, executor>>

NextPlanning == PlanFull \/ PlanChangeList

\* one planning call of a three-input step on any state of its meta tables
SpecPlanning == InitPlanning /\ [][NextPlanning]_vars

\* C24 (disjoint partition): across the batches one get_full_process_ids
\* call emits no key appears twice, in one batch or in two, also for a
\* step with three inputs and keys missing from some of them.
C24_DisjointPartition ==
    last.op = "get_full_process_ids" =>
        Len(concat(last.ret.idx_gen)) = Cardinality(Planned)

\* C25 (batch count): the count get_full_process_ids and
\* get_change_list_process_ids return is the number of batches their stream
\* yields, ceil(total / chunk_size) for the total distinct keys to process;
\* every batch holds at most chunk_size keys and only the last may hold
\* fewer.
C25_BatchCount ==
    last.op \in {"get_full_process_ids", "get_change_list_process_ids"} =>
        LET gen == last.ret.idx_gen IN
        /\ last.ret.idx_count = Len(gen)
        /\ Len(gen) = ceil_div(Cardinality(Planned), chunk_size)
        /\ \A i \in 1..Len(gen) :
               /\ Len(gen[i]) <= chunk_size
               /\ i < Len(gen) => Len(gen[i]) = chunk_size

\* C26 (filter pushdown): with a filter on the transform key in the merged
\* run config, every key get_full_process_ids emits has the filter's value,
\* whatever the transform-meta table holds; a filter on a column that is no
\* transform key is a constant column of every emitted batch.
C26_FilterPushdown ==
    last.op = "get_full_process_ids" =>
        /\ "id" \in DOMAIN last.filters =>
               \A k \in Planned : k = last.filters["id"]
        /\ "label" \in DOMAIN last.filters =>
               /\ "label" \in DOMAIN last.ret.columns
               /\ last.ret.columns["label"] = last.filters["label"]

\* ------------------------------------------- step construction (spec 4.4)
MaxInputs == 3

MaxOutputs == 2

ColumnNames == {"id", "part"}

\* a table's primary_schema: its key columns and their column types
PrimarySchemas ==
    {s \in UNION {[C -> {"Integer", "String"}] : C \in (SUBSET ColumnNames) \ {{}}} :
        "part" \in DOMAIN s => s["part"] = "Integer"}

SeqsOf(S, lo, hi) == UNION {[1..n -> S] : n \in lo..hi}

\* the columns that are primary keys of every table of a list
common_p_keys(mts) == {c \in ColumnNames : \A i \in 1..Len(mts) : c \in DOMAIN mts[i]}

\* compute_transform_schema with the output tables left out
compute_transform_schema_inputs(input_mts, output_mts, given, keys) ==
    IF given THEN [error |-> "None", transform_keys |-> keys]
    ELSE IF Len(input_mts) = 0 \/ common_p_keys(input_mts) = {}
    THEN [error |-> "AssertionError", transform_keys |-> {}]
    ELSE [error |-> "None", transform_keys |-> common_p_keys(input_mts)]

\* BaseBatchTransformStep.compute_transform_schema(input_mts, output_mts,
\* transform_keys); `given` is `transform_keys is not None`
compute_transform_schema(input_mts, output_mts, given, keys) ==
    IF given
    THEN IF \A k \in keys : \E i \in 1..Len(input_mts \o output_mts) :
                                  k \in DOMAIN (input_mts \o output_mts)[i]
         THEN [error |-> "None", transform_keys |-> keys]
         ELSE [error |-> "KeyError", transform_keys |-> {}]
    ELSE IF Len(input_mts) = 0 \/ common_p_keys(input_mts) = {}
    THEN [error |-> "AssertionError", transform_keys |-> {}]
    ELSE IF Len(output_mts) = 0
    THEN [error |-> "None", transform_keys |-> common_p_keys(input_mts)]
    ELSE IF common_p_keys(output_mts) = {}
            \/ common_p_keys(input_mts) \cap common_p_keys(output_mts) = {}
    THEN [error |-> "AssertionError", transform_keys |-> {}]
    ELSE [error |-> "None",
          transform_keys |-> common_p_keys(input_mts) \cap common_p_keys(output_mts)]

\* ComputeStep.validate(): for every join key the column type the last
\* input declares against the one the last output declares
validate(input_dts, output_dts) ==
    LET join_keys == IF Len(input_dts) = 0 \/ Len(output_dts) = 0 THEN {}
                     ELSE common_p_keys(input_dts) \cap common_p_keys(output_dts)
    IN  IF \E key \in join_keys :
               input_dts[Len(input_dts)][key] # output_dts[Len(output_dts)][key]
        THEN "ValueError" ELSE "None"

\* the number of input tables whose primary schema holds column c
all_input_keys_counts(input_dts, c) ==
    Cardinality({i \in 1..Len(input_dts) : c \in DOMAIN input_dts[i]})

\* the checks _build_changed_idx_sql makes before it builds the query
build_changed_idx_sql_checks(step) ==
    IF step.transform_keys = {} THEN "NotImplementedError"
    ELSE IF Len(step.output_dts) = 0 THEN "TypeError"
    ELSE IF \E c \in ColumnNames :
                all_input_keys_counts(step.input_dts, c) \notin {0, 1, Len(step.input_dts)}
    THEN "AssertionError"
    ELSE IF Len(step.input_dts) > 1
            /\ \E key \in step.transform_keys : all_input_keys_counts(step.input_dts, key) = 0
    THEN "ValueError"
    ELSE "None"

\* the declared step: its tables' primary schemas and transform_keys
DeclaredSteps ==
    [input_dts : SeqsOf(PrimarySchemas, 1, MaxInputs),
     output_dts : SeqsOf(PrimarySchemas, 0, MaxOutputs),
     given : BOOLEAN,
     transform_keys : SUBSET ColumnNames]

InitBuild ==
    /\ pipeline \in {p \in DeclaredSteps : (p.given <=> p.transform_keys # {})}
    /\ data = NoTables
    /\ meta = NoTables
    /\ trmeta = NoTrMeta
    /\ clock = 1
    /\ last = [op |-> "init"]
    /\ driver = "sqlite"
    /\ chunk_size = 1
    /\ pc = "declared" /\ step_i = 0 /\ idx_gen = <<>>
    /\ event_log = {} /\ nmut = 0 /\ nfail = 0
    /\ dirty = FALSE /\ each_run = TRUE /\ hist = NoHist /\ workers = <<>>
    /\ current_changes = NoCL /\ iteration = 0

\* build_compute(ds, catalog, pipeline): the step is constructed, then
\* validated
BuildCompute ==
    /\ pc = "declared"
    /\ \E built \in {compute_transform_schema(pipeline.input_dts, pipeline.output_dts,
                                              pipeline.given, pipeline.transform_keys)} :
          LET error == IF built.error # "None" THEN built.error
                       ELSE validate(pipeline.input_dts, pipeline.output_dts)
          IN  /\ last' = [op |-> "build_compute", constructed |-> built.error = "None",
                          transform_keys |-> built.transform_keys, error |-> error]
              /\ pc' = IF error = "None" THEN "built" ELSE "failed"
    /\ UNCHANGED <<data, meta, trmeta, clock, conf, driver_loop, executor, step_i, idx_gen,
                   event_log, nmut, nfail, dirty, each_run, hist>>

BuiltStep ==
    [input_dts |-> pipeline.input_dts, output_dts |-> pipeline.output_dts,
     transform_keys |-> last.transform_keys]

\* step.run_full(ds): get_full_process_ids builds the changed-idx query
PlanBuilt ==
    /\ pc = "built"
    /\ \E error \in {build_changed_idx_sql_checks(BuiltStep)} :
          /\ last' = [op |-> "get_full_process_ids", constructed |-> TRUE,
                      transform_keys |-> last.transform_keys, error |-> error]
          /\ pc' = IF error = "None" THEN "planned" ELSE "failed"
    /\ UNCHANGED <<data, meta, trmeta, clock, conf, driver_loop, executor, step_i, idx_gen,
                   event_log, nmut, nfail, dirty, each_run, hist>>

\* step.run_changelist(ds, change_list): get_change_list_process_ids cuts
\* the change list into batches and builds no query
PlanBuiltChangeList ==
    /\ pc = "built"
    /\ last' = [op |-> "get_change_list_process_ids", constructed |-> TRUE,
                transform_keys |-> last.transform_keys, error |-> "None"]
    /\ pc' = "planned"
    /\ UNCHANGED <<data, meta, trmeta, clock, conf, driver_loop, executor, step_i, idx_gen,
                   event_log, nmut, nfail, dirty, each_run, hist>>

NextBuild == BuildCompute \/ PlanBuilt \/ PlanBuiltChangeList

\* a declared step is built, then planned in full or in change-list mode
SpecBuild == InitBuild /\ [][NextBuild]_vars

\* the columns that are primary keys of every input and every output table
DeclaredCommonKeys ==
    common_p_keys(pipeline.input_dts) \cap common_p_keys(pipeline.output_dts)

\* C27 (default transform keys): when transform_keys is not given, the
\* step's transform keys are exactly the columns that are primary keys of
\* every input and every output table; when there is none, construction
\* fails and no step is built.
C27_DefaultTransformKeys ==
    (pc # "declared" /\ ~pipeline.given) =>
        IF DeclaredCommonKeys = {}
        THEN ~last.constructed /\ last.error # "None" /\ pc = "failed"
        ELSE last.constructed /\ last.transform_keys = DeclaredCommonKeys

\* a step built with default keys from tables whose schemas differ, one
\* column being a key of every table and another of some only
C27_Witness ==
    /\ pc = "built" /\ ~pipeline.given
    /\ Len(pipeline.input_dts) >= 2 /\ Len(pipeline.output_dts) >= 1
    /\ last.transform_keys = {"id"}
    /\ \E i \in 1..Len(pipeline.output_dts) : "part" \notin DOMAIN pipeline.output_dts[i]
    /\ \A i \in 1..Len(pipeline.input_dts) : "part" \in DOMAIN pipeline.input_dts[i]

\* some transform key is a key of more than one but not all inputs
PartialKeys ==
    \E key \in pipeline.transform_keys :
        all_input_keys_counts(pipeline.input_dts, key) \notin {0, 1, Len(pipeline.input_dts)}

\* C28 (partial primary keys): a step with a transform key in more than one
\* but not all inputs is rejected at construction, so no batch of it is
\* ever planned; a step whose key columns are each in one or in all inputs
\* is not rejected for its key distribution.
C28_PartialKeysRejected ==
    /\ (PartialKeys /\ pc # "declared") => (pc = "failed" /\ last.op = "build_compute")
    /\ (/\ last.op = "get_full_process_ids"
        /\ \A c \in ColumnNames :
               all_input_keys_counts(pipeline.input_dts, c) \in {0, 1, Len(pipeline.input_dts)})
            => last.error # "AssertionError"

\* two tables of the step declare a column of one name with two types
TypeMismatch ==
    LET tables == pipeline.input_dts \o pipeline.output_dts
    IN  \E i \in 1..Len(tables), j \in 1..Len(tables) :
            \E c \in (DOMAIN tables[i]) \cap (DOMAIN tables[j]) : tables[i][c] # tables[j][c]

\* C29 (key type validation): build_compute fails, before any step runs,
\* whenever two tables of one step, inputs or outputs, declare a key column
\* of the same name with different column types.
C29_KeyTypeValidation ==
    (TypeMismatch /\ pc # "declared") => (pc = "failed" /\ last.op = "build_compute")

\* --------------------------------- TableStoreFiledir (store/filedir.py)
\* the constructor arguments: whether filename_pattern holds a `*`,
\* readonly ("None" when not given) and enable_rm
FiledirArgs == [glob : BOOLEAN, readonly : {"None", "True", "False"}, enable_rm : BOOLEAN]

\* __init__ raises when the pattern holds a `*` and readonly is False
filedir_init_error(args) ==
    IF args.glob /\ args.readonly = "False" THEN "ValueError" ELSE "None"

\* self.readonly after __init__
filedir_readonly(args) ==
    IF args.readonly = "None" THEN args.glob ELSE args.readonly = "True"

\* filesystem.rm of the rows of idx in order, up to the first missing file
RECURSIVE filedir_rm(_, _)
filedir_rm(files, idx) ==
    IF idx = <<>> THEN [files |-> files, error |-> "None"]
    ELSE IF Head(idx) \notin DOMAIN files THEN [files |-> files, error |-> "FileNotFoundError"]
    ELSE filedir_rm(Remove(files, {Head(idx)}), Tail(idx))

\* TableStoreFiledir.delete_rows(idx)
filedir_delete_rows(args, files, idx) ==
    IF ~args.enable_rm THEN [files |-> files, error |-> "None"]
    ELSE IF filedir_readonly(args) THEN [files |-> files, error |-> "AssertionError"]
    ELSE filedir_rm(files, SetToSeq(idx))

\* TableStoreFiledir.insert_rows(df)
filedir_insert_rows(args, files, df) ==
    IF DOMAIN df = {} THEN [files |-> files, error |-> "None"]
    ELSE IF filedir_readonly(args) THEN [files |-> files, error |-> "AssertionError"]
    ELSE [files |-> Upsert(files, df), error |-> "None"]

\* TableStore.update_rows(df): upsert by PK, refused by a read-only store
filedir_update_rows(args, files, df) ==
    IF filedir_readonly(args) THEN [files |-> files, error |-> "ReadOnlyError"]
    ELSE [files |-> Upsert(files, df), error |-> "None"]

StoreTables == {"a"}

InitStore ==
    /\ pipeline \in {args \in FiledirArgs : filedir_init_error(args) = "None"}
    /\ \E files \in Frames(Keys, Vals) : data = [NoTables EXCEPT !["a"] = files]
    /\ meta = NoTables
    /\ trmeta = NoTrMeta
    /\ clock = 1
    /\ last = [op |-> "init"]
    /\ driver = "sqlite"
    /\ chunk_size = 1
    /\ pc = "idle" /\ step_i = 0 /\ idx_gen = <<>>
    /\ event_log = {} /\ nmut = 0 /\ nfail = 0
    /\ dirty = FALSE /\ each_run = TRUE /\ hist = NoHist /\ workers = <<>>
    /\ current_changes = NoCL /\ iteration = 0

\* a call to the store that leaves res
StoreCall(t, op, arg, res) ==
    /\ data' = [data EXCEPT ![t] = res.files]
    /\ last' = [op |-> op, table |-> t, arg |-> arg, error |-> res.error]
    /\ UNCHANGED <<meta, trmeta, clock, conf, run, driver_loop, executor>>

InsertRows ==
    \E t \in StoreTables, df \in Frames(Keys, Vals) :
        StoreCall(t, "insert_rows", DOMAIN df, filedir_insert_rows(pipeline, data[t], df))

UpdateRows ==
    \E t \in StoreTables, df \in Frames(Keys, Vals) :
        StoreCall(t, "update_rows", DOMAIN df, filedir_update_rows(pipeline, data[t], df))

DeleteRows ==
    \E t \in StoreTables, idx \in SUBSET Keys :
        StoreCall(t, "delete_rows", idx, filedir_delete_rows(pipeline, data[t], idx))

NextStore == InsertRows \/ UpdateRows \/ DeleteRows

\* calls to one file-directory table store
SpecStore == InitStore /\ [][NextStore]_vars

\* C30 (readonly discipline): a read-only file-directory store (pattern
\* with `*`, or readonly = True) answers every insert_rows, update_rows and
\* delete_rows call with an error and leaves its rows unchanged, for any
\* argument, the empty frame included, and whatever enable_rm is.
C30_ReadonlyDiscipline ==
    [][(filedir_readonly(pipeline)
            /\ last'.op \in {"insert_rows", "update_rows", "delete_rows"})
          => (last'.error # "None" /\ data' = data)]_vars

\* ------------------------------------------ read_rows of the table stores
\* (store/database.py, store/filedir.py, store/qdrant.py)
StoreKinds == {"TableStoreDB", "TableStoreFiledir", "QdrantStore"}

\* TableStoreDB.read_rows: an empty idx gives an empty frame, an idx is
\* applied as a filter on the primary keys, no idx selects the whole table
db_read_rows(rows, given, idx) ==
    IF given /\ idx = {} THEN [rows |-> EmptyDF, error |-> "None"]
    ELSE IF given THEN [rows |-> Loc(rows, idx), error |-> "None"]
    ELSE [rows |-> rows, error |-> "None"]

\* TableStoreFiledir.read_rows: without idx the files the glob matches, with
\* idx the file of every row of idx is opened, and opening a file that does
\* not exist raises
filedir_read_rows(files, given, idx) ==
    IF ~given THEN [rows |-> files, error |-> "None"]
    ELSE IF idx \subseteq DOMAIN files THEN [rows |-> Loc(files, idx), error |-> "None"]
    ELSE [rows |-> EmptyDF, error |-> "FileNotFoundError"]

\* QdrantStore.read_rows starts with `if not idx: raise Exception(...)`:
\* None is falsy, and the truth value of a pandas frame is a ValueError
qdrant_read_rows(points, given, idx) ==
    IF ~given THEN [rows |-> EmptyDF, error |-> "Exception"]
    ELSE [rows |-> EmptyDF, error |-> "ValueError"]

read_rows(kind, rows, given, idx) ==
    CASE kind = "TableStoreDB" -> db_read_rows(rows, given, idx)
      [] kind = "TableStoreFiledir" -> filedir_read_rows(rows, given, idx)
      [] kind = "QdrantStore" -> qdrant_read_rows(rows, given, idx)

InitRead ==
    /\ pipeline \in [kind : StoreKinds]
    /\ \E rows \in Frames(Keys, Vals) : data = [NoTables EXCEPT !["a"] = rows]
    /\ meta = NoTables
    /\ trmeta = NoTrMeta
    /\ clock = 1
    /\ last = [op |-> "init"]
    /\ driver = "sqlite"
    /\ chunk_size = 1
    /\ pc = "idle" /\ step_i = 0 /\ idx_gen = <<>>
    /\ event_log = {} /\ nmut = 0 /\ nfail = 0
    /\ dirty = FALSE /\ each_run = TRUE /\ hist = NoHist /\ workers = <<>>
    /\ current_changes = NoCL /\ iteration = 0

\* read_rows(idx)
ReadRows ==
    \E t \in StoreTables, idx \in SUBSET Keys :
        \E res \in {read_rows(pipeline.kind, data[t], TRUE, idx)} :
            /\ last' = [op |-> "read_rows", table |-> t, given |-> TRUE, idx |-> idx,
                        rows |-> res.rows, error |-> res.error]
            /\ UNCHANGED <<data, meta, trmeta, clock, conf, run, driver_loop, executor>>

\* read_rows()
ReadAllRows ==
    \E t \in StoreTables :
        \E res \in {read_rows(pipeline.kind, data[t], FALSE, {})} :
            /\ last' = [op |-> "read_rows", table |-> t, given |-> FALSE, idx |-> {},
                        rows |-> res.rows, error |-> res.error]
            /\ UNCHANGED <<data, meta, trmeta, clock, conf, run, driver_loop, executor>>

NextRead == ReadRows \/ ReadAllRows

\* reads of one table store of any of the three kinds
SpecRead == InitRead /\ [][NextRead]_vars

\* C31 (read_rows contract): for every table store, read_rows(idx) raises
\* no error and returns exactly the stored rows whose PK is in idx (PKs of
\* idx that are not stored are absent, an empty idx gives an empty frame),
\* and read_rows() returns all rows.
C31_ReadRowsContract ==
    last.op = "read_rows" =>
        /\ last.error = "None"
        /\ last.rows = (IF last.given THEN Loc(data[last.table], last.idx)
                        ELSE data[last.table])

\* ------------------------------------- the iterations of the change list
\* the tables the steps reading a table with named keys write
Writers(stps, t) == {i \in 1..Len(stps) : t \in SeqToSet(stps[i].output_dts)}

Named(change_list) == {t \in DOMAIN change_list : change_list[t] # {}}

\* C32 (change-list iteration semantics): in an iteration of
\* run_steps_changelist every step works on the change list current at the
\* start of the iteration, so the next change list names only output tables
\* of steps that list named an input of, and only keys it named for them;
\* what a step emits is seen in the next iteration only, so a step leaves
\* alone the keys that list did not name for it even when a step before it
\* changed them; the consumed list is dropped, the next one holding the
\* emitted changes, every changed output row among them, and nothing else.
C32_IterationSemantics ==
    [][iteration' # iteration =>
          LET stps == Pipelines[pipeline] IN
          /\ Named(current_changes') \subseteq Fed(stps, Named(current_changes))
          /\ \A t \in Named(current_changes') :
                 /\ current_changes'[t] \subseteq
                        UNION {ChangedFor(stps[i], current_changes) : i \in Writers(stps, t)}
                 /\ Writers(stps, t) # {}
          /\ \A i \in 1..Len(stps) : \A n \in 1..Len(stps[i].output_dts) :
                 LET t == stps[i].output_dts[n] IN
                 \A k \in Keys :
                     Loc(data'[t], {k}) # Loc(data[t], {k}) =>
                         /\ k \in ChangedFor(stps[i], current_changes)
                         /\ t \in DOMAIN current_changes' /\ k \in current_changes'[t]]_vars

\* the second step of the chain worked in iteration 2 on what the first
\* emitted in iteration 1
C32_Witness ==
    /\ pipeline = "chain" /\ iteration = 2
    /\ last.op = "changelist_pass" /\ Named(last.changes) = {"mid"}
    /\ data["out"] # EmptyDF
    /\ "out" \in Named(current_changes)

\* ------------------- change-list planning over key columns (spec 4.4)
MaxRows == 2        \* rows of one change-list entry

\* the index frames over the columns cols, of at most MaxRows rows
IndexFrames(cols) == {S \in SUBSET [cols -> Keys] : Cardinality(S) <= MaxRows}

\* the rows of an index frame, in the order the frame holds them
RECURSIVE RowsOf(_)
RowsOf(S) ==
    IF S = {} THEN <<>>
    ELSE LET r == CHOOSE x \in S : TRUE IN <<r>> \o RowsOf(S \ {r})

\* drop_duplicates: the first of every run of equal rows
RECURSIVE drop_duplicates(_)
drop_duplicates(rows) ==
    IF rows = <<>> THEN <<>>
    ELSE LET front == drop_duplicates(SubSeq(rows, 1, Len(rows) - 1))
             r == rows[Len(rows)]
         IN  IF r \in SeqToSet(front) THEN front ELSE Append(front, r)

\* data_to_index(data_df, primary_keys): data_df[primary_keys], a KeyError
\* when a key is no column of the frame
data_to_index(rows, cols, keys) ==
    IF keys \subseteq cols
    THEN [error |-> "None", rows |-> [i \in 1..Len(rows) |-> [c \in keys |-> rows[i][c]]]]
    ELSE [error |-> "KeyError", rows |-> <<>>]

\* the loop of get_change_list_process_ids over the first n inputs
RECURSIVE changes_of_inputs(_, _, _)
changes_of_inputs(step, change_list, n) ==
    IF n = 0 THEN [error |-> "None", rows |-> <<>>]
    ELSE Let(changes_of_inputs(step, change_list, n - 1),
             LAMBDA prev :
                 IF prev.error # "None" \/ step.input_dts[n].name \notin DOMAIN change_list
                 THEN prev
                 ELSE Let(data_to_index(RowsOf(change_list[step.input_dts[n].name]),
                                        step.input_dts[n].primary_keys, step.transform_keys),
                          LAMBDA idx : [error |-> idx.error, rows |-> prev.rows \o idx.rows]))

\* get_change_list_process_ids of a step whose tables have several key
\* columns: the change-list indexes of its inputs, each cut to the
\* transform keys, concatenated, without duplicates, in chunks
get_change_list_process_ids_columns(step, change_list, size) ==
    Let(changes_of_inputs(step, change_list, Len(step.input_dts)),
        LAMBDA changes :
            IF changes.error # "None"
            THEN [error |-> changes.error, idx_count |-> 0, idx_gen |-> <<>>]
            ELSE Let(drop_duplicates(changes.rows),
                     LAMBDA idx : [error |-> "None", idx_count |-> Len(idx),
                                   idx_gen |-> read_chunks(idx, size)]))

ChangeTables == <<"a", "b", "mid">>

KeySets == (SUBSET ColumnNames) \ {{}}

\* steps over the first one or two of the tables, with given transform keys
\* that are each a key column of some input
ChangeSteps ==
    {s \in {[input_dts |-> [i \in 1..n |-> [name |-> ChangeTables[i], primary_keys |-> pk[i]]],
             transform_keys |-> K] : n \in 1..2, pk \in [1..2 -> KeySets], K \in KeySets} :
        \A c \in s.transform_keys :
            \E i \in 1..Len(s.input_dts) : c \in s.input_dts[i].primary_keys}

\* the key columns of table t: as the step declares them for its inputs,
\* `id` for the other tables
primary_keys_of(step, t) ==
    IF \E i \in 1..Len(step.input_dts) : step.input_dts[i].name = t
    THEN step.input_dts[CHOOSE i \in 1..Len(step.input_dts) :
                            step.input_dts[i].name = t].primary_keys
    ELSE {"id"}

\* what a change list may hold for table t: nothing, or an index frame
ChangeEntries(step, t) ==
    {[named |-> FALSE, idx |-> {}]} \cup
    {[named |-> TRUE, idx |-> S] : S \in IndexFrames(primary_keys_of(step, t))}

\* the change lists over the three tables
ChangeLists(step) ==
    {[t \in {x \in SeqToSet(ChangeTables) : e[x].named} |-> e[t].idx] :
        e \in {[a |-> ea, b |-> eb, mid |-> em] :
                   ea \in ChangeEntries(step, "a"), eb \in ChangeEntries(step, "b"),
                   em \in ChangeEntries(step, "mid")}}

InitChangePlan ==
    /\ pipeline \in ChangeSteps
    /\ data = NoTables
    /\ meta = NoTables
    /\ trmeta = NoTrMeta
    /\ clock = 1
    /\ last = [op |-> "init"]
    /\ driver = "sqlite"
    /\ chunk_size \in 1..NKeys
    /\ pc = "idle" /\ step_i = 0 /\ idx_gen = <<>>
    /\ event_log = {} /\ nmut = 0 /\ nfail = 0
    /\ dirty = FALSE /\ each_run = TRUE /\ hist = NoHist /\ workers = <<>>
    /\ current_changes = NoCL /\ iteration = 0

\* step.get_change_list_process_ids(ds, change_list)
GetChangeListProcessIds ==
    /\ last.op = "init"
    /\ \E change_list \in ChangeLists(pipeline) :
        /\ last' = [op |-> "get_change_list_process_ids", change_list |-> change_list,
                    ret |-> get_change_list_process_ids_columns(pipeline, change_list,
                                                                chunk_size)]
        /\ current_changes' = change_list
        /\ UNCHANGED <<data, meta, trmeta, clock, conf, run, pipeline, iteration, executor>>

NextChangePlan == GetChangeListProcessIds

\* one change-list planning call of a step on any change list
SpecChangePlan == InitChangePlan /\ [][NextChangePlan]_vars

\* the projections onto the transform keys of the rows the change list
\* names for the inputs of the step
ChangedProjections ==
    UNION {{[c \in pipeline.transform_keys \cap DOMAIN r |-> r[c]] :
                r \in last.change_list[pipeline.input_dts[i].name]} :
           i \in {j \in 1..Len(pipeline.input_dts) :
                      pipeline.input_dts[j].name \in DOMAIN last.change_list}}

\* C33 (change-list planning): get_change_list_process_ids raises no error
\* and returns exactly the distinct projections onto the transform keys of
\* the PKs the change list names for the step's inputs, each in exactly one
\* batch; entries of other tables are ignored; this also for steps where a
\* transform key is a key column of only some inputs.
C33_ChangeListPlanning ==
    last.op = "get_change_list_process_ids" =>
        /\ last.ret.error = "None"
        /\ SeqToSet(concat(last.ret.idx_gen)) = ChangedProjections
        /\ Len(concat(last.ret.idx_gen)) = Cardinality(ChangedProjections)

\* -------------------------------------------- what store_chunk reports
\* the PKs whose data row of table t this step added, changed or deleted
RowsTouched(t) == {k \in Keys : Loc(data'[t], {k}) # Loc(data[t], {k})}

\* C34 (change entries are real changes): the PKs store_chunk returns for
\* the change list are exactly the PKs whose rows the call added, changed
\* or deleted; the PKs of rows stored again with the content they had are
\* not among them.
C34_RealChanges ==
    [][last'.op = "store_chunk" => last'.ret = RowsTouched(last'.table)]_vars

\* ------------------------------------------------ the planner's order
\* the priority of key k in the step's transform-meta table, NULL without a row
PriorityOf(st, k) ==
    IF k \in DOMAIN trmeta[st.name] THEN trmeta[st.name][k].priority ELSE NULL

\* k1 comes strictly before k2: by priority descending, keys without
\* priority last, then by key ascending
ComesBefore(st, k1, k2) ==
    LET p1 == PriorityOf(st, k1)
        p2 == PriorityOf(st, k2)
    IN  IF p1 # p2 THEN p1 # NULL /\ (p2 = NULL \/ p1 > p2) ELSE k1 < k2

\* C35 (planner order): the keys get_full_process_ids emits, batches taken
\* in emission order, are ordered by transform-meta priority descending with
\* the keys that have no priority last, then by key ascending; the order is
\* strict, so the sequence of batches is determined by the meta state.
C35_PlannerOrder ==
    last.op = "get_full_process_ids" =>
        LET ids == concat(last.ret.idx_gen) IN
        /\ \A i \in 1..Len(ids), j \in 1..Len(ids) :
               i < j => ComesBefore(PlanStep, ids[i], ids[j])
        /\ last.ret.idx_gen = read_chunks(ids, chunk_size)

\* a key of higher priority was emitted before a smaller key of lower
\* priority, in more than one batch
C35_Witness ==
    /\ last.op = "get_full_process_ids"
    /\ \E i \in 1..Len(concat(last.ret.idx_gen)), j \in 1..Len(concat(last.ret.idx_gen)) :
           LET ids == concat(last.ret.idx_gen) IN
           /\ i < j /\ ids[i] > ids[j]
           /\ PriorityOf(PlanStep, ids[i]) > PriorityOf(PlanStep, ids[j])
           /\ PriorityOf(PlanStep, ids[j]) # NULL
    /\ Len(last.ret.idx_gen) > 1

\* --------------------------- the arity of a transform's result
\* what a transform may return: one frame, or a list/tuple of `len` frames
ResultShapes == [is_list : BOOLEAN, len : 0..(MaxOutputs + 1)]

\* the result of shape `shape`: every frame it holds is the step's first
\* result frame
transform_result(step, input_dfs, shape) ==
    [is_list |-> shape.is_list,
     frames |-> [i \in 1..(IF shape.is_list THEN shape.len ELSE 1) |->
                    process_batch_dfs(step, input_dfs)[1]]]

\* a list at least as long as the outputs taken, a single frame always
result_arity_ok_at_least(result, output_dts) ==
    IF result.is_list THEN Len(result.frames) >= Len(output_dts) /\ Len(output_dts) > 0
    ELSE TRUE

\* if isinstance(chunks_df, (list, tuple)): assert len(chunks_df) == len(self.output_dts)
\* else: assert len(self.output_dts) == 1
result_arity_ok(result, output_dts) ==
    IF result.is_list THEN Len(result.frames) = Len(output_dts)
    ELSE Len(output_dts) = 1

\* process_batch with a transform that returns a result of any shape; the
\* two asserts stand outside the try blocks, so a failed one is raised to
\* the caller and not logged
process_batch_result(db, step, idx, now, shape) ==
    LET input_dfs == get_batch_input_dfs(db, step, idx) IN
    IF nonempty(input_dfs)
    THEN LET result == transform_result(step, input_dfs, shape) IN
         IF ~result_arity_ok(result, step.output_dts)
         THEN [db |-> db, yielded |-> FALSE, changes |-> NoChanges,
               raised |-> "AssertionError"]
         ELSE LET chunks_df == [i \in 1..Len(step.output_dts) |->
                                   result.frames[IF i <= Len(result.frames) THEN i ELSE 1]]
                  st == store_output_batch(db, step, chunks_df, idx, now,
                                           Len(step.output_dts))
              IN  [db |-> st.db, yielded |-> TRUE, changes |-> st.changes,
                   raised |-> "None"]
    ELSE LET st == delete_missing_data(db, step, idx, now, Len(step.output_dts))
         IN  [db |-> st.db, yielded |-> TRUE, changes |-> st.changes, raised |-> "None"]

\* a step with one output and a step with two
AritySteps == {steps[2], fan_step}

InitArity ==
    /\ pipeline \in AritySteps
    /\ \E df \in Frames(Keys, Vals) :
          LET st == dt_store_chunk(EmptyDF, EmptyDF, df, {}, 1)
          IN  /\ data = [NoTables EXCEPT ![pipeline.input_dts[1]] = st.data]
              /\ meta = [NoTables EXCEPT ![pipeline.input_dts[1]] = st.meta]
    /\ trmeta = NoTrMeta
    /\ clock = 2
    /\ last = [op |-> "init"]
    /\ driver = "sqlite"
    /\ chunk_size = NKeys
    /\ pc = "idle" /\ step_i = 0 /\ idx_gen = <<>>
    /\ event_log = {} /\ nmut = 0 /\ nfail = 0
    /\ dirty = FALSE /\ each_run = TRUE /\ hist = NoHist /\ workers = <<>>
    /\ current_changes = NoCL /\ iteration = 0

\* step.process_batch(ds, idx), the transform returning a result of some shape
ProcessBatchResult ==
    /\ clock < MaxClock
    /\ \E idx \in (SUBSET Keys) \ {{}}, shape \in ResultShapes :
         \E res \in {process_batch_result(DB, pipeline, idx, clock, shape)} :
            /\ data' = res.db.data
            /\ meta' = res.db.meta
            /\ trmeta' = res.db.trmeta
            /\ clock' = clock + 1
            /\ last' = [op |-> "process_batch", step |-> pipeline.name, idx |-> idx,
                        is_list |-> shape.is_list,
                        len |-> IF shape.is_list THEN shape.len ELSE 1,
                        has_input |-> has_input(DB, pipeline, idx),
                        yielded |-> res.yielded, changes |-> res.changes,
                        raised |-> res.raised]
    /\ UNCHANGED <<conf, run, driver_loop, executor>>

\* an input row of the step is stored with new content
IngestForArity ==
    /\ clock < MaxClock
    /\ \E k \in Keys, v \in Vals :
         LET t == pipeline.input_dts[1]
             st == dt_store_chunk(data[t], meta[t], [x \in {k} |-> v], {}, clock)
         IN  /\ st.change_idx # {}
             /\ data' = [data EXCEPT ![t] = st.data]
             /\ meta' = [meta EXCEPT ![t] = st.meta]
             /\ clock' = clock + 1
             /\ last' = [op |-> "store_chunk", table |-> t, idx |-> {k}]
    /\ UNCHANGED <<trmeta, conf, run, driver_loop, executor>>

NextArity == ProcessBatchResult \/ IngestForArity

\* batches of a one-output and of a two-output step whose transform returns
\* results of any arity
SpecArity == InitArity /\ [][NextArity]_vars

\* the result the last batch's transform returned has the shape process_batch takes
ArityAccepted ==
    IF last'.is_list THEN last'.len = Len(pipeline.output_dts)
    ELSE Len(pipeline.output_dts) = 1

\* C36 (result arity): process_batch takes a transform result only if it is
\* a single frame and the step has one output, or a list/tuple as long as
\* the outputs; for any other result no output row or row meta is written,
\* no change list is yielded and the transform meta is left unmarked.
C36_ResultArity ==
    [][(last'.op = "process_batch" /\ last'.has_input /\ ~ArityAccepted) =>
          /\ last'.raised # "None"
          /\ ~last'.yielded
          /\ data' = data /\ meta' = meta /\ trmeta' = trmeta]_vars

\* a batch with input rows whose transform returned one frame too many has
\* left both outputs of the step empty
C36_Witness ==
    /\ last.op = "process_batch" /\ last.has_input
    /\ Len(pipeline.output_dts) = 2 /\ last.is_list /\ last.len = 3
    /\ last.raised = "AssertionError"
    /\ \A n \in 1..2 : data[pipeline.output_dts[n]] = EmptyDF
    /\ \A k \in Keys : k \notin DOMAIN trmeta[pipeline.name]

\* ----------------------------------------------------------- quiescence
\* the step named n
StepNamed(n) == steps[CHOOSE i \in 1..Len(steps) : steps[i].name = n]

\* the last batch of every key the step knows ended in success, and no input
\* row of the key changed since
AllProcessed(st) ==
    /\ KnownKeys(st) # {}
    /\ \A k \in KnownKeys(st) : hist[st.name][k] \in {"ok", "retried_ok"}

\* C37 (quiescence): when the batches of the step's last full run all
\* succeeded and no input was ingested since that run started, the planner
\* returns no key and batch count 0, so the next run_full calls the
\* transform for no batch and writes nothing.
C37_Quiescence ==
    (last.op = "get_full_process_ids" /\ AllProcessed(StepNamed(last.step))) =>
        /\ last.ret.idx_count = 0
        /\ Planned = {}

\* ------------------------- a batch interleaved with ingests (spec 4.5, 5)
\* A batch of the two-output step passes through READY, FETCHED, STORED and
\* COMMITTED; input rows may be ingested between any two of its steps.
\* the process_ts taken when the transform meta is committed
batch_process_ts_at_commit(started, committed) == committed

\* the process_ts of a batch: the time taken when the batch starts, before
\* its inputs are read; its outputs are stored and its transform meta is
\* committed with it
batch_process_ts(started, committed) == started

\* steps 2 to 5 of the batch on the input frames it fetched
store_fetched(db, step, input_dfs, idx, now) ==
    IF nonempty(input_dfs)
    THEN store_output_batch(db, step, process_batch_dfs(step, input_dfs), idx, now,
                            Len(step.output_dts)).db
    ELSE delete_missing_data(db, step, idx, now, Len(step.output_dts)).db

InitInterleave ==
    /\ data = NoTables
    /\ meta = NoTables
    /\ trmeta = NoTrMeta
    /\ clock = 1
    /\ last = [op |-> "init"]
    /\ driver = "sqlite"
    /\ chunk_size \in 1..NKeys
    /\ pc = "idle" /\ step_i = 0 /\ idx_gen = <<>>
    /\ event_log = {} /\ nmut = 0 /\ nfail = 0
    /\ dirty = FALSE /\ each_run = TRUE /\ hist = NoHist /\ workers = <<>>
    /\ pipeline = "chain" /\ current_changes = NoCL /\ iteration = 0

\* the keys of the batch that is between its fetch and its commit
InFlight == UNION {workers[j].idx : j \in DOMAIN workers}

\* an input row is stored with new content, at any moment; a key of the
\* batch in flight whose row changes is recorded as raced
IngestDuring ==
    /\ nmut < MaxMutations /\ clock < MaxClock
    /\ \E k \in Keys, v \in Vals :
         LET st == dt_store_chunk(data["a"], meta["a"], [x \in {k} |-> v], {}, clock)
         IN  /\ st.change_idx # {}
             /\ data' = [data EXCEPT !["a"] = st.data]
             /\ meta' = [meta EXCEPT !["a"] = st.meta]
             /\ hist' = [hist EXCEPT ![fan_step.name] =
                            [x \in Keys |-> IF x = k /\ k \in InFlight THEN "raced" ELSE @[x]]]
             /\ last' = [op |-> "ingest", table |-> "a", idx |-> {k}, now |-> clock,
                         raced |-> k \in InFlight]
    /\ nmut' = nmut + 1
    /\ clock' = clock + 1
    /\ UNCHANGED <<trmeta, conf, driver_loop, executor, pc, step_i, idx_gen, event_log,
                   nfail, dirty, each_run>>

\* run_full plans the step
PlanInterleaved ==
    /\ pc = "idle" /\ clock < MaxClock
    /\ \E plan \in {get_full_process_ids(driver, fan_step, meta, trmeta, chunk_size)} :
          /\ last' = [op |-> "get_full_process_ids", step |-> fan_step.name, ret |-> plan]
          /\ idx_gen' = plan.idx_gen
          /\ pc' = IF plan.idx_count = 0 THEN "idle" ELSE "batch"
    /\ UNCHANGED <<data, meta, trmeta, clock, conf, driver_loop, executor, step_i, event_log,
                   nmut, nfail, dirty, each_run, hist>>

\* READY -> FETCHED: the time is taken and the input rows of the batch read
FetchInputs ==
    /\ pc = "batch" /\ workers = <<>>
    /\ LET idx == SeqToSet(Head(idx_gen))
       IN  /\ workers' = <<[idx |-> idx, pos |-> "FETCHED", now |-> clock,
                            input_dfs |-> get_batch_input_dfs(DB, fan_step, idx)]>>
           /\ hist' = [hist EXCEPT ![fan_step.name] =
                          [x \in Keys |-> IF x \in idx THEN "none" ELSE @[x]]]
           /\ last' = [op |-> "get_batch_input_dfs", idx |-> idx, now |-> clock]
    /\ clock' = clock + 1
    /\ UNCHANGED <<data, meta, trmeta, conf, driver_loop, pc, step_i, idx_gen, event_log,
                   nmut, nfail, dirty, each_run>>

\* FETCHED -> STORED: the transform runs on the rows read and its result is
\* stored, or the outputs of a batch without input rows are deleted
StoreOutputs ==
    /\ pc = "batch" /\ workers # <<>> /\ workers[1].pos = "FETCHED"
    /\ \E db \in {store_fetched(DB, fan_step, workers[1].input_dfs, workers[1].idx,
                                batch_process_ts(workers[1].now, clock))} :
          /\ data' = db.data
          /\ meta' = db.meta
    /\ workers' = [workers EXCEPT ![1].pos = "STORED"]
    /\ last' = [op |-> "store_outputs", idx |-> workers[1].idx, now |-> clock]
    /\ clock' = clock + 1
    /\ UNCHANGED <<trmeta, conf, driver_loop, pc, step_i, idx_gen, event_log,
                   nmut, nfail, dirty, each_run, hist>>

\* STORED -> COMMITTED: mark_rows_processed_success(idx, process_ts)
CommitBatch ==
    /\ pc = "batch" /\ workers # <<>> /\ workers[1].pos = "STORED"
    /\ trmeta' = store_batch_result(DB, fan_step, workers[1].idx,
                                    batch_process_ts(workers[1].now, clock)).trmeta
    /\ workers' = <<>>
    /\ idx_gen' = Tail(idx_gen)
    /\ pc' = IF Tail(idx_gen) = <<>> THEN "idle" ELSE "batch"
    /\ last' = [op |-> "mark_rows_processed_success", idx |-> workers[1].idx, now |-> clock]
    /\ clock' = clock + 1
    /\ UNCHANGED <<data, meta, conf, driver_loop, step_i, event_log,
                   nmut, nfail, dirty, each_run, hist>>

NextInterleave ==
    IngestDuring \/ PlanInterleaved \/ FetchInputs \/ StoreOutputs \/ CommitBatch

\* full runs of the two-output step, its batches interleaved with ingests
SpecInterleave == InitInterleave /\ [][NextInterleave]_vars

SyncMeta(t, chunk_idx, given, processed_idx) ==
    LET deleted_idx == sync_meta_deleted_idx(meta[t], chunk_idx,
                                             IF given THEN processed_idx ELSE Keys)
    IN  /\ data' = [data EXCEPT ![t] = Remove(@, deleted_idx)]
        /\ meta' = [meta EXCEPT ![t] = Remove(@, deleted_idx)]
        /\ last' = [op |-> "sync_meta", table |-> t, chunks |-> chunk_idx,
                    given |-> given, processed_idx |-> processed_idx, ret |-> deleted_idx]
        /\ UNCHANGED <<trmeta, clock, conf, run, driver_loop, executor>>

DoSyncMeta ==
    \E t \in LegacyTables, chunk_idx \in SUBSET Keys, given \in BOOLEAN,
       processed_idx \in SUBSET Keys :
        (given \/ processed_idx = {}) /\ SyncMeta(t, chunk_idx, given, processed_idx)

NextSync == DoStoreChunk \/ DoStore \/ DoSyncMeta

\* store_chunk, sync_meta and store calls on one c12n_pipe DataTable
SpecSync == InitTable /\ [][NextSync]_vars

\* C39 (data/meta agreement): after any sequence of completed store_chunk,
\* sync_meta and store calls, the PKs the data store holds are the PKs that
\* are live in the meta store.
C39_DataMetaAgreement ==
    \A t \in LegacyTables :
        DOMAIN data[t] = {k \in DOMAIN meta[t] : meta[t][k].delete_ts = NULL}

\* a sync_meta limited to some processed rows deleted one of them and left
\* another row, which an earlier store_chunk had stored
C39_Witness ==
    /\ last.op = "sync_meta" /\ last.given /\ last.ret # {}
    /\ data[last.table] # EmptyDF
    /\ \E k \in DOMAIN data[last.table] : k \notin last.chunks

\* ------------------- run_changelist of a two-output step, batch by batch
MaxPartialClock == 5   \* no ingest and no batch of these runs starts at or after this clock value

\* the two-output step is to be run on change lists; its input holds some rows
InitPartial ==
    \E df \in Frames(Keys, Vals) :
        LET st == dt_store_chunk(EmptyDF, EmptyDF, df, {}, 1)
        IN  /\ pipeline = "fan"
            /\ data = [NoTables EXCEPT !["a"] = st.data]
            /\ meta = [NoTables EXCEPT !["a"] = st.meta]
            /\ trmeta = NoTrMeta
            /\ clock = 2
            /\ last = [op |-> "init"]
            /\ driver = "sqlite"
            /\ chunk_size \in 1..NKeys
            /\ pc = "idle" /\ step_i = 0 /\ idx_gen = <<>>
            /\ event_log = {} /\ nmut = 0 /\ nfail = 0
            /\ dirty = FALSE /\ each_run = TRUE /\ hist = NoHist /\ workers = <<>>
            /\ current_changes = NoCL /\ iteration = 0

\* the input table is written between two runs
IngestPartial ==
    /\ pc = "idle"
    /\ nmut < MaxMutations
    /\ clock < MaxPartialClock
    /\ \E df \in Frames(Keys, Vals) :
        \E st \in {dt_store_chunk(data["a"], meta["a"], df, {}, clock)} :
            /\ df # EmptyDF
            /\ data' = [data EXCEPT !["a"] = st.data]
            /\ meta' = [meta EXCEPT !["a"] = st.meta]
            /\ last' = [op |-> "ingest", table |-> "a", changes |-> st.change_idx]
    /\ nmut' = nmut + 1
    /\ clock' = clock + 1
    /\ UNCHANGED <<trmeta, conf, driver_loop, executor, pc, step_i, idx_gen, event_log,
                   nfail, dirty, each_run, hist>>

\* run_changelist(ds, change_list) up to its loop: the planning, the early
\* return for no batches, res_changelist = ChangeList()
StartRunChangelist ==
    /\ pc = "idle"
    /\ clock < MaxPartialClock
    /\ \E idx \in SUBSET Keys :
        LET change_list == changes_append(NoCL, "a", idx)
            plan == get_change_list_process_ids(fan_step, change_list, chunk_size)
        IN  /\ idx_gen' = plan.idx_gen
            /\ pc' = IF plan.idx_count = 0 THEN "idle" ELSE "run_changelist"
            /\ last' = IF plan.idx_count = 0
                       THEN [op |-> "run_changelist", ret |-> NoCL]
                       ELSE [op |-> "get_change_list_process_ids", changes |-> change_list]
    /\ current_changes' = NoCL
    /\ UNCHANGED <<data, meta, trmeta, clock, conf, executor, pipeline, iteration, step_i,
                   event_log, nmut, nfail, dirty, each_run, hist>>

\* one turn of run_changelist's loop: process_batch(idx) with any outcome,
\* res_changelist extended by what it yielded
ChangelistBatch ==
    /\ pc = "run_changelist"
    /\ idx_gen # <<>>
    /\ \E outcome \in Outcomes, at \in 1..Len(fan_step.output_dts) :
        LET idx == SeqToSet(Head(idx_gen)) IN
        \E res \in {process_batch(DB, fan_step, idx, clock, outcome, at)} :
            /\ outcome \in {"transform_failed", "store_failed"} => has_input(DB, fan_step, idx)
            /\ outcome # "store_failed" => at = 1
            /\ data' = res.db.data
            /\ meta' = res.db.meta
            /\ trmeta' = res.db.trmeta
            /\ event_log' = IF res.logged
                            THEN event_log \cup {[step |-> fan_step.name, idx |-> idx]}
                            ELSE event_log
            /\ current_changes' = IF res.yielded
                                  THEN changes_extend(current_changes, res.changes)
                                  ELSE current_changes
            /\ last' = [op |-> "process_batch", step |-> fan_step.name, idx |-> idx,
                        outcome |-> outcome, at |-> at, now |-> clock,
                        yielded |-> res.yielded, changes |-> res.changes]
    /\ clock' = clock + 1
    /\ idx_gen' = Tail(idx_gen)
    /\ UNCHANGED <<conf, executor, pipeline, iteration, pc, step_i, nmut, nfail, dirty,
                   each_run, hist>>

\* the loop is over: return res_changelist
ChangelistReturn ==
    /\ pc = "run_changelist"
    /\ idx_gen = <<>>
    /\ pc' = "idle"
    /\ last' = [op |-> "run_changelist", ret |-> current_changes]
    /\ UNCHANGED <<data, meta, trmeta, clock, conf, driver_loop, executor, step_i, idx_gen,
                   event_log, nmut, nfail, dirty, each_run, hist>>

NextPartial == IngestPartial \/ StartRunChangelist \/ ChangelistBatch \/ ChangelistReturn

\* change-list runs of the two-output step, any batch failing at any output
SpecPartial == InitPartial /\ [][NextPartial]_vars

\* the rows of idx that table t holds as written at time now
WrittenAt(t, idx, now) ==
    {k \in idx \cap DOMAIN data[t] : k \in DOMAIN meta[t] /\ meta[t][k].update_ts = now}

\* C40 (no change list on partial store failure): a batch whose store fails
\* on any output yields no change list, the rows written to the outputs
\* before it notwithstanding, and leaves run_changelist's result as it was;
\* what run_changelist returns is that result.
C40_NoChangesOnStoreFailure ==
    [][/\ (last'.op = "process_batch" /\ last'.outcome = "store_failed") =>
              /\ ~last'.yielded
              /\ last'.changes = NoChanges
              /\ current_changes' = current_changes
       /\ (last'.op = "run_changelist" /\ pc = "run_changelist") =>
              last'.ret = current_changes]_vars

\* a store failure on the second output after the first output was written:
\* the table of the first output holds rows of the batch written by it, and
\* the result of run_changelist names no change of them
C40_Witness ==
    /\ last.op = "process_batch" /\ last.outcome = "store_failed" /\ last.at = 2
    /\ WrittenAt("mid", last.idx, last.now) # {}
    /\ \A t \in DOMAIN current_changes : current_changes[t] \cap last.idx = {}
    /\ data["out"] = EmptyDF

====
